---- MODULE Spec2Model ----
(***************************************************************************)
(* A model of the vesting pallet (frame/vesting/src/lib.rs): per-account   *)
(* linear vesting schedules, the vesting balance lock that mirrors them,   *)
(* and the dispatchable / trait operations that maintain both.             *)
(*                                                                         *)
(* Amounts live in the Balance domain 0..BalanceMax with saturating        *)
(* arithmetic, block numbers in 0..BlockNumberMax.  Schedule indices are   *)
(* 0-based as in the source; sequences are 1-based, so index i is          *)
(* element i + 1.  An Option<T> is a sequence of length 0 (None) or        *)
(* 1 (Some).                                                               *)
(***************************************************************************)
EXTENDS Integers, Sequences, FiniteSets, TLC

\* ------------------------------------------------------------ bounds
\* Balance::max_value(), scaled down.
BalanceMax == 12
\* The largest `locked` and `per_block` of the schedules given to the merge
\* specification.
MergeLockedMax == 4
\* BlockNumber::max_value(), scaled down.
BlockNumberMax == 7
\* The highest block number the clock is advanced to.
MaxBlock == 3
\* The number of calls after genesis that may hand an account a new schedule
\* (vested transfers and add_vesting_schedule calls that change storage).
MaxCreated == 1

\* ------------------------------------------------------------ configuration
\* T::MaxVestingSchedules (the mock runtime's value).
MaxVestingSchedules == 3
\* T::MinVestedTransfer: a runtime parameter, given a small value here.
MinVestedTransfer == 1
\* Free balance every account is endowed with before the vesting genesis.
GenesisBalance == 5

Accounts == {1, 2}
Balance == 0..BalanceMax

None == <<>>
Some(x) == <<x>>

\* ------------------------------------------------------------ arithmetic
saturating_add(a, b) == IF a + b > BalanceMax THEN BalanceMax ELSE a + b
\* The subtraction wraps around below zero instead of stopping at zero.
saturating_sub_wrapping(a, b) == IF a >= b THEN a - b ELSE a - b + BalanceMax + 1
saturating_sub(a, b) == IF a > b THEN a - b ELSE 0
saturating_mul(a, b) == IF a * b > BalanceMax THEN BalanceMax ELSE a * b
Max(a, b) == IF a >= b THEN a ELSE b
Min(a, b) == IF a <= b THEN a ELSE b

\* T::BlockNumberToBalance::convert: a widening of the same number.
BlockNumberToBalance(n) == n

\* ------------------------------------------------------------ VestingInfo
VestingInfo(locked, per_block, starting_block) ==
    [locked |-> locked, per_block |-> per_block, starting_block |-> starting_block]

\* Amount of the schedule still locked at block n.
locked_at(s, n) ==
    IF n <= s.starting_block
    THEN s.locked
    ELSE saturating_sub(
             s.locked,
             saturating_mul(s.per_block, BlockNumberToBalance(n - s.starting_block)))

\* Block at which the schedule is fully unlocked, as Ok(block) or Err.
\* A per_block of 0 is treated as 1.
ending_block(s) ==
    LET per_block == IF s.per_block = 0 THEN 1 ELSE s.per_block
        duration  == (s.locked \div per_block)
                       + (IF s.locked % per_block = 0 THEN 0 ELSE 1)
        ending    == BlockNumberToBalance(s.starting_block) + duration
    IN  IF ending > BlockNumberMax
        THEN [ok |-> FALSE, val |-> 0, err |-> "ArithmeticOverflow"]
        ELSE [ok |-> TRUE, val |-> ending, err |-> "Ok"]

\* Ok unless `locked` or `per_block` is zero.
validate(s) ==
    IF s.locked = 0 \/ s.per_block = 0 THEN "InvalidScheduleParams" ELSE "Ok"

\* per_block clamped to locked.
correct(s) == VestingInfo(s.locked, Min(s.per_block, s.locked), s.starting_block)

\* ------------------------------------------------------------ VestingAction
Passive == [kind |-> "Passive", index1 |-> 0, index2 |-> 0]
Remove(i) == [kind |-> "Remove", index1 |-> i, index2 |-> 0]
Merge(i, j) == [kind |-> "Merge", index1 |-> i, index2 |-> j]

\* A Merge action targets its first index only.
should_remove_first_index_only(action, index) ==
    CASE action.kind = "Passive" -> FALSE
      [] action.kind = "Remove"  -> action.index1 = index
      [] action.kind = "Merge"   -> action.index1 = index

should_remove(action, index) ==
    CASE action.kind = "Passive" -> FALSE
      [] action.kind = "Remove"  -> action.index1 = index
      [] action.kind = "Merge"   -> action.index1 = index \/ action.index2 = index

\* ------------------------------------------------------------ state
VARIABLES
    now,      \* frame_system block number
    free,     \* Currency free balance of every account
    locks,    \* the VESTING_ID balance lock of every account: Option<Balance>
    Vesting,  \* storage map Vesting: Option<BoundedVec<VestingInfo>> per account
    events,   \* events deposited by the most recent call
    last,     \* the most recent call: its name, the account it is about, its result
    created   \* number of storage-changing schedule-creating calls so far

vars == <<now, free, locks, Vesting, events, last, created>>


\* The part of the chain state the pallet reads and writes.
Storage == [free |-> free, locks |-> locks, Vesting |-> Vesting]

\* What a call leaves behind: the new storage, its result, its events.
Outcome(st, result, evs) == [st |-> st, result |-> result, events |-> evs]

\* ------------------------------------------------------------ Currency
\* Amount held by the vesting lock (0 when there is no lock).
lock_amount(lk, who) == IF lk[who] = None THEN 0 ELSE lk[who][1]

\* Whether T::Currency::transfer(source, target, amount) succeeds: the source
\* covers the amount without going below its lock, and the target's balance
\* stays representable.
can_transfer(st, source, target, amount) ==
    /\ st.free[source] >= amount
    /\ st.free[source] - amount >= lock_amount(st.locks, source)
    /\ source # target => st.free[target] + amount <= BalanceMax

\* The free balances after a successful transfer.
transfer(fr, source, target, amount) ==
    IF source = target
    THEN fr
    ELSE [fr EXCEPT ![source] = fr[source] - amount, ![target] = fr[target] + amount]

\* ------------------------------------------------------------ helpers of the pallet
RECURSIVE filter_map(_, _, _, _)
filter_map(schedules, action, index, acc) ==
    IF index >= Len(schedules)
    THEN acc
    ELSE LET schedule   == schedules[index + 1]
             locked_now == locked_at(schedule, now)
         IN  IF locked_now = 0 \/ should_remove(action, index)
             THEN filter_map(schedules, action, index + 1, acc)
             ELSE filter_map(schedules, action, index + 1,
                      [schedules |-> Append(acc.schedules, schedule),
                       total_locked_now |->
                           saturating_add(acc.total_locked_now, locked_now)])

\* The total also counts the schedules that `action` removes.
report_schedule_updates_counting_removed(schedules, action) ==
    [schedules |->
         filter_map(schedules, action, 0,
                    [schedules |-> <<>>, total_locked_now |-> 0]).schedules,
     total_locked_now |->
         filter_map(schedules, Passive, 0,
                    [schedules |-> <<>>, total_locked_now |-> 0]).total_locked_now]

\* Under the Passive action, completed schedules are kept in the sequence.
report_schedule_updates_keeping_completed(schedules, action) ==
    [schedules |->
         IF action = Passive
         THEN schedules
         ELSE filter_map(schedules, action, 0,
                         [schedules |-> <<>>, total_locked_now |-> 0]).schedules,
     total_locked_now |->
         filter_map(schedules, action, 0,
                    [schedules |-> <<>>, total_locked_now |-> 0]).total_locked_now]

\* The locked amounts are evaluated one block late, at the block before the
\* current one.
report_schedule_updates_at_previous_block(schedules, action) ==
    LET n == IF now = 0 THEN 0 ELSE now - 1
        kept == SelectSeq([k \in 1..Len(schedules) |-> k],
                          LAMBDA k : /\ locked_at(schedules[k], n) # 0
                                     /\ ~should_remove(action, k - 1))
        sum[k \in 0..Len(kept)] ==
            IF k = 0 THEN 0
            ELSE saturating_add(sum[k - 1], locked_at(schedules[kept[k]], n))
    IN  [schedules |-> [k \in 1..Len(kept) |-> schedules[kept[k]]],
         total_locked_now |-> sum[Len(kept)]]

\* The schedules that are neither completed nor removed by `action`, and the
\* amount they lock at the current block.
report_schedule_updates(schedules, action) ==
    filter_map(schedules, action, 0, [schedules |-> <<>>, total_locked_now |-> 0])

\* A total of zero is written as a lock of zero instead of removing the lock.
write_lock_keeping_zero_lock(lk, who, total_locked_now) ==
    [locks  |-> [lk EXCEPT ![who] = Some(total_locked_now)],
     events |-> << <<"VestingUpdated", who, total_locked_now>> >>]

\* Write an account's updated vesting lock.
write_lock(lk, who, total_locked_now) ==
    IF total_locked_now = 0
    THEN [locks  |-> [lk EXCEPT ![who] = None],
          events |-> << <<"VestingCompleted", who>> >>]
    ELSE [locks  |-> [lk EXCEPT ![who] = Some(total_locked_now)],
          events |-> << <<"VestingUpdated", who, total_locked_now>> >>]

\* An empty sequence is stored instead of the entry being removed.
write_vesting_storing_empty(v, who, schedules) ==
    IF Len(schedules) > MaxVestingSchedules
    THEN [result |-> "AtMaxVestingSchedules", Vesting |-> v]
    ELSE [result |-> "Ok", Vesting |-> [v EXCEPT ![who] = Some(schedules)]]

\* Write an account's updated vesting schedules.
write_vesting(v, who, schedules) ==
    IF Len(schedules) > MaxVestingSchedules
    THEN [result |-> "AtMaxVestingSchedules", Vesting |-> v]
    ELSE IF Len(schedules) = 0
    THEN [result |-> "Ok", Vesting |-> [v EXCEPT ![who] = None]]
    ELSE [result |-> "Ok", Vesting |-> [v EXCEPT ![who] = Some(schedules)]]

\* The tail shared by every operation: write_vesting, then write_lock.
write_vesting_and_lock(st, who, schedules, locked_now, evs) ==
    LET w == write_vesting(st.Vesting, who, schedules)
        l == write_lock(st.locks, who, locked_now)
    IN  IF w.result # "Ok"
        THEN Outcome(st, w.result, evs)
        ELSE Outcome([st EXCEPT !.Vesting = w.Vesting, !.locks = l.locks],
                     "Ok", evs \o l.events)

\* The merged schedule starts at the later starting block, also when that
\* block is before block n.
merge_unended_from_latest_start(n, schedule1, schedule2, schedule1_ending_block, schedule2_ending_block) ==
    LET locked == saturating_add(locked_at(schedule1, n), locked_at(schedule2, n))
        ending == Max(schedule1_ending_block, schedule2_ending_block)
        starting_block == Max(schedule1.starting_block, schedule2.starting_block)
        duration == saturating_sub(ending, BlockNumberToBalance(starting_block))
        per_block == IF duration > locked THEN 1
                     ELSE IF duration = 0 THEN locked
                     ELSE locked \div duration
    IN  IF locked = 0
        THEN [result |-> "Ok", schedule |-> None]
        ELSE [result |-> "Ok",
              schedule |-> Some(VestingInfo(locked, per_block, starting_block))]

\* The starting block of the second schedule is not taken into account.
merge_unended_ignoring_second_start(n, schedule1, schedule2, schedule1_ending_block, schedule2_ending_block) ==
    LET locked == saturating_add(locked_at(schedule1, n), locked_at(schedule2, n))
        ending == Max(schedule1_ending_block, schedule2_ending_block)
        starting_block == Max(n, schedule1.starting_block)
        duration == saturating_sub(ending, BlockNumberToBalance(starting_block))
        per_block == IF duration > locked THEN 1
                     ELSE IF duration = 0 THEN locked
                     ELSE locked \div duration
    IN  IF locked = 0
        THEN [result |-> "Ok", schedule |-> None]
        ELSE [result |-> "Ok",
              schedule |-> Some(VestingInfo(locked, per_block, starting_block))]

\* The merged schedule locks the original amounts again, vested part included.
merge_unended_relocking_vested(n, schedule1, schedule2, schedule1_ending_block, schedule2_ending_block) ==
    LET locked == saturating_add(schedule1.locked, schedule2.locked)
        ending == Max(schedule1_ending_block, schedule2_ending_block)
        starting_block ==
            Max(Max(n, schedule1.starting_block), schedule2.starting_block)
        duration == saturating_sub(ending, BlockNumberToBalance(starting_block))
        per_block == IF duration > locked THEN 1
                     ELSE IF duration = 0 THEN locked
                     ELSE locked \div duration
    IN  IF locked = 0
        THEN [result |-> "Ok", schedule |-> None]
        ELSE [result |-> "Ok",
              schedule |-> Some(VestingInfo(locked, per_block, starting_block))]

\* The duration of the merged schedule is counted from block n instead of
\* from its starting block.
merge_unended_duration_from_now(n, schedule1, schedule2, schedule1_ending_block, schedule2_ending_block) ==
    LET locked == saturating_add(locked_at(schedule1, n), locked_at(schedule2, n))
        ending == Max(schedule1_ending_block, schedule2_ending_block)
        starting_block ==
            Max(Max(n, schedule1.starting_block), schedule2.starting_block)
        duration == saturating_sub(ending, BlockNumberToBalance(n))
        per_block == IF duration > locked THEN 1
                     ELSE IF duration = 0 THEN locked
                     ELSE locked \div duration
    IN  IF locked = 0
        THEN [result |-> "Ok", schedule |-> None]
        ELSE [result |-> "Ok",
              schedule |-> Some(VestingInfo(locked, per_block, starting_block))]

\* The merged schedule unlocks per block what the two schedules unlocked
\* together.
merge_unended_adding_per_blocks(n, schedule1, schedule2, schedule1_ending_block, schedule2_ending_block) ==
    LET locked == saturating_add(locked_at(schedule1, n), locked_at(schedule2, n))
        starting_block ==
            Max(Max(n, schedule1.starting_block), schedule2.starting_block)
        per_block == saturating_add(schedule1.per_block, schedule2.per_block)
    IN  IF locked = 0
        THEN [result |-> "Ok", schedule |-> None]
        ELSE [result |-> "Ok",
              schedule |-> Some(VestingInfo(locked, per_block, starting_block))]

\* The merge of two schedules that have both not ended at block n, given
\* their ending blocks (the part of merge_vesting_info after the early exits).
merge_unended(n, schedule1, schedule2, schedule1_ending_block, schedule2_ending_block) ==
    LET locked == saturating_add(locked_at(schedule1, n), locked_at(schedule2, n))
        ending == Max(schedule1_ending_block, schedule2_ending_block)
        starting_block ==
            Max(Max(n, schedule1.starting_block), schedule2.starting_block)
        duration == saturating_sub(ending, BlockNumberToBalance(starting_block))
        per_block == IF duration > locked THEN 1
                     ELSE IF duration = 0 THEN locked
                     ELSE locked \div duration
    IN  IF locked = 0
        THEN [result |-> "Ok", schedule |-> None]
        ELSE [result |-> "Ok",
              schedule |-> Some(VestingInfo(locked, per_block, starting_block))]

\* When both schedules have ended the second one is returned.
merge_vesting_info_returning_ended(n, schedule1, schedule2) ==
    LET e1 == ending_block(schedule1)
        e2 == ending_block(schedule2)
        now_as_balance == BlockNumberToBalance(n)
    IN  IF ~e1.ok THEN [result |-> e1.err, schedule |-> None]
        ELSE IF ~e2.ok THEN [result |-> e2.err, schedule |-> None]
        ELSE IF e1.val <= now_as_balance
        THEN [result |-> "Ok", schedule |-> Some(schedule2)]
        ELSE IF e2.val <= now_as_balance
        THEN [result |-> "Ok", schedule |-> Some(schedule1)]
        ELSE merge_unended(n, schedule1, schedule2, e1.val, e2.val)

\* A schedule that has not ended is merged with an ended one as if both were
\* still running: the result starts at block n.
merge_vesting_info_rebasing_survivor(n, schedule1, schedule2) ==
    LET e1 == ending_block(schedule1)
        e2 == ending_block(schedule2)
        now_as_balance == BlockNumberToBalance(n)
    IN  IF ~e1.ok THEN [result |-> e1.err, schedule |-> None]
        ELSE IF ~e2.ok THEN [result |-> e2.err, schedule |-> None]
        ELSE IF e1.val <= now_as_balance /\ e2.val <= now_as_balance
        THEN [result |-> "Ok", schedule |-> None]
        ELSE merge_unended(n, schedule1, schedule2, e1.val, e2.val)

\* A schedule counts as ended only after its ending block, not at it.
merge_vesting_info_ended_after_ending_block(n, schedule1, schedule2) ==
    LET e1 == ending_block(schedule1)
        e2 == ending_block(schedule2)
        now_as_balance == BlockNumberToBalance(n)
    IN  IF ~e1.ok THEN [result |-> e1.err, schedule |-> None]
        ELSE IF ~e2.ok THEN [result |-> e2.err, schedule |-> None]
        ELSE IF e1.val < now_as_balance /\ e2.val < now_as_balance
        THEN [result |-> "Ok", schedule |-> None]
        ELSE IF e1.val < now_as_balance
        THEN [result |-> "Ok", schedule |-> Some(schedule2)]
        ELSE IF e2.val < now_as_balance
        THEN [result |-> "Ok", schedule |-> Some(schedule1)]
        ELSE merge_unended(n, schedule1, schedule2, e1.val, e2.val)

\* Create a new VestingInfo based off of two other VestingInfos.
merge_vesting_info(n, schedule1, schedule2) ==
    LET e1 == ending_block(schedule1)
        e2 == ending_block(schedule2)
        now_as_balance == BlockNumberToBalance(n)
    IN  IF ~e1.ok THEN [result |-> e1.err, schedule |-> None]
        ELSE IF ~e2.ok THEN [result |-> e2.err, schedule |-> None]
        ELSE IF e1.val <= now_as_balance /\ e2.val <= now_as_balance
        THEN [result |-> "Ok", schedule |-> None]
        ELSE IF e1.val <= now_as_balance
        THEN [result |-> "Ok", schedule |-> Some(schedule2)]
        ELSE IF e2.val <= now_as_balance
        THEN [result |-> "Ok", schedule |-> Some(schedule1)]
        ELSE merge_unended(n, schedule1, schedule2, e1.val, e2.val)


\* ------------------------------------------------------------ operations
\* An account without an entry is treated as one with no schedules.
do_vest_defaulting_to_empty(st, who) ==
    LET schedules == IF st.Vesting[who] = None THEN <<>> ELSE st.Vesting[who][1]
        r == report_schedule_updates(schedules, Passive)
    IN  write_vesting_and_lock(st, who, r.schedules, r.total_locked_now, <<>>)

\* Unlock any vested funds of `who`.
do_vest(st, who) ==
    IF st.Vesting[who] = None
    THEN Outcome(st, "NotVesting", <<>>)
    ELSE LET r == report_schedule_updates(st.Vesting[who][1], Passive)
         IN  write_vesting_and_lock(st, who, r.schedules, r.total_locked_now, <<>>)

\* A locked amount of zero is not short-circuited: the schedule is pushed and
\* the account recomputed.
add_vesting_schedule_without_zero_exit(st, who, locked, per_block, starting_block) ==
    LET vesting_schedule == VestingInfo(locked, per_block, starting_block)
        schedules == IF st.Vesting[who] = None THEN <<>> ELSE st.Vesting[who][1]
    IN  IF Len(schedules) >= MaxVestingSchedules
        THEN Outcome(st, "AtMaxVestingSchedules", <<>>)
        ELSE LET r == report_schedule_updates(
                          Append(schedules, vesting_schedule), Passive)
             IN  write_vesting_and_lock(
                     st, who, r.schedules, r.total_locked_now, <<>>)

\* VestingSchedule::add_vesting_schedule.
add_vesting_schedule(st, who, locked, per_block, starting_block) ==
    IF locked = 0
    THEN Outcome(st, "Ok", <<>>)
    ELSE LET vesting_schedule == VestingInfo(locked, per_block, starting_block)
             schedules == IF st.Vesting[who] = None THEN <<>> ELSE st.Vesting[who][1]
         IN  IF Len(schedules) >= MaxVestingSchedules
             THEN Outcome(st, "AtMaxVestingSchedules", <<>>)
             ELSE LET r == report_schedule_updates(
                               Append(schedules, vesting_schedule), Passive)
                  IN  write_vesting_and_lock(
                          st, who, r.schedules, r.total_locked_now, <<>>)

\* An index that is no position of the stored sequence is refused.
remove_vesting_schedule_checking_index(st, who, schedule_index) ==
    IF st.Vesting[who] = None
    THEN Outcome(st, "NotVesting", <<>>)
    ELSE IF schedule_index >= Len(st.Vesting[who][1])
    THEN Outcome(st, "ScheduleIndexOutOfBounds", <<>>)
    ELSE LET r == report_schedule_updates(st.Vesting[who][1], Remove(schedule_index))
         IN  write_vesting_and_lock(st, who, r.schedules, r.total_locked_now, <<>>)

\* The completed schedules are filtered out first and the index is applied to
\* what is left.
remove_vesting_schedule_indexing_filtered(st, who, schedule_index) ==
    IF st.Vesting[who] = None
    THEN Outcome(st, "NotVesting", <<>>)
    ELSE LET f == report_schedule_updates(st.Vesting[who][1], Passive)
             r == report_schedule_updates(f.schedules, Remove(schedule_index))
         IN  write_vesting_and_lock(st, who, r.schedules, r.total_locked_now, <<>>)

\* VestingSchedule::remove_vesting_schedule.
remove_vesting_schedule(st, who, schedule_index) ==
    IF st.Vesting[who] = None
    THEN Outcome(st, "NotVesting", <<>>)
    ELSE LET r == report_schedule_updates(st.Vesting[who][1], Remove(schedule_index))
         IN  write_vesting_and_lock(st, who, r.schedules, r.total_locked_now, <<>>)

\* The capacity check compares with <= instead of <.
below_max_schedules_off_by_one(st, target) ==
    (IF st.Vesting[target] = None THEN 0 ELSE Len(st.Vesting[target][1]))
        <= MaxVestingSchedules

\* Whether the target has room for one more schedule (the decode_len check).
below_max_schedules(st, target) ==
    (IF st.Vesting[target] = None THEN 0 ELSE Len(st.Vesting[target][1]))
        < MaxVestingSchedules

\* The threshold itself is accepted.
amount_low_below_threshold(schedule) == ~(schedule.locked >= MinVestedTransfer)

\* The negation of `schedule.locked() > T::MinVestedTransfer::get()`.
amount_low(schedule) == ~(schedule.locked > MinVestedTransfer)

\* The capacity of the target is checked after the currency transfer.
do_vested_transfer_checking_capacity_late(st, source, target, schedule) ==
    IF amount_low(schedule)
    THEN Outcome(st, "AmountLow", <<>>)
    ELSE IF validate(schedule) # "Ok"
    THEN Outcome(st, validate(schedule), <<>>)
    ELSE IF ~can_transfer(st, source, target, correct(schedule).locked)
    THEN Outcome(st, "InsufficientBalance", <<>>)
    ELSE LET s     == correct(schedule)
             moved == [st EXCEPT !.free = transfer(st.free, source, target, s.locked)]
         IN  IF ~below_max_schedules(st, target)
             THEN Outcome(moved, "AtMaxVestingSchedules", <<>>)
             ELSE add_vesting_schedule(
                      moved, target, s.locked, s.per_block, s.starting_block)

\* The capacity of the target is not checked before the currency transfer.
do_vested_transfer_without_capacity_check(st, source, target, schedule) ==
    IF amount_low(schedule)
    THEN Outcome(st, "AmountLow", <<>>)
    ELSE IF validate(schedule) # "Ok"
    THEN Outcome(st, validate(schedule), <<>>)
    ELSE IF ~can_transfer(st, source, target, correct(schedule).locked)
    THEN Outcome(st, "InsufficientBalance", <<>>)
    ELSE LET s     == correct(schedule)
             moved == [st EXCEPT !.free = transfer(st.free, source, target, s.locked)]
             added == add_vesting_schedule(
                          moved, target, s.locked, s.per_block, s.starting_block)
         IN  IF added.result # "Ok"
             THEN Outcome(added.st, "Panic", added.events)
             ELSE added

\* The schedule is recorded for the target also when it locks nothing at the
\* current block.
do_vested_transfer_recording_unlocked(st, source, target, schedule) ==
    IF amount_low(schedule)
    THEN Outcome(st, "AmountLow", <<>>)
    ELSE IF validate(schedule) # "Ok"
    THEN Outcome(st, validate(schedule), <<>>)
    ELSE IF ~below_max_schedules(st, target)
    THEN Outcome(st, "AtMaxVestingSchedules", <<>>)
    ELSE IF ~can_transfer(st, source, target, correct(schedule).locked)
    THEN Outcome(st, "InsufficientBalance", <<>>)
    ELSE LET s     == correct(schedule)
             moved == [st EXCEPT !.free = transfer(st.free, source, target, s.locked)]
             schedules == IF st.Vesting[target] = None THEN <<>> ELSE st.Vesting[target][1]
             r     == report_schedule_updates(schedules, Passive)
         IN  write_vesting_and_lock(
                 moved, target, Append(r.schedules, s),
                 saturating_add(r.total_locked_now, locked_at(s, now)), <<>>)

\* The schedule is corrected and transferred without `validate`.
do_vested_transfer_without_validate(st, source, target, schedule) ==
    IF amount_low(schedule)
    THEN Outcome(st, "AmountLow", <<>>)
    ELSE IF ~below_max_schedules(st, target)
    THEN Outcome(st, "AtMaxVestingSchedules", <<>>)
    ELSE IF ~can_transfer(st, source, target, correct(schedule).locked)
    THEN Outcome(st, "InsufficientBalance", <<>>)
    ELSE LET s     == correct(schedule)
             moved == [st EXCEPT !.free = transfer(st.free, source, target, s.locked)]
             added == add_vesting_schedule(
                          moved, target, s.locked, s.per_block, s.starting_block)
         IN  IF added.result # "Ok"
             THEN Outcome(added.st, "Panic", added.events)
             ELSE added

\* The validated schedule is used as given, without `correct`.
do_vested_transfer_without_correct(st, source, target, schedule) ==
    IF amount_low(schedule)
    THEN Outcome(st, "AmountLow", <<>>)
    ELSE IF validate(schedule) # "Ok"
    THEN Outcome(st, validate(schedule), <<>>)
    ELSE IF ~below_max_schedules(st, target)
    THEN Outcome(st, "AtMaxVestingSchedules", <<>>)
    ELSE IF ~can_transfer(st, source, target, schedule.locked)
    THEN Outcome(st, "InsufficientBalance", <<>>)
    ELSE LET moved == [st EXCEPT !.free = transfer(st.free, source, target, schedule.locked)]
             added == add_vesting_schedule(
                          moved, target, schedule.locked, schedule.per_block,
                          schedule.starting_block)
         IN  IF added.result # "Ok"
             THEN Outcome(added.st, "Panic", added.events)
             ELSE added

\* `correct` sets a per_block above `locked` to 1 instead of to `locked`.
do_vested_transfer_correcting_to_one(st, source, target, schedule) ==
    IF amount_low(schedule)
    THEN Outcome(st, "AmountLow", <<>>)
    ELSE IF validate(schedule) # "Ok"
    THEN Outcome(st, validate(schedule), <<>>)
    ELSE IF ~below_max_schedules(st, target)
    THEN Outcome(st, "AtMaxVestingSchedules", <<>>)
    ELSE IF ~can_transfer(st, source, target, schedule.locked)
    THEN Outcome(st, "InsufficientBalance", <<>>)
    ELSE LET per_block == IF schedule.per_block > schedule.locked
                          THEN 1 ELSE schedule.per_block
             moved == [st EXCEPT !.free = transfer(st.free, source, target, schedule.locked)]
             added == add_vesting_schedule(
                          moved, target, schedule.locked, per_block,
                          schedule.starting_block)
         IN  IF added.result # "Ok"
             THEN Outcome(added.st, "Panic", added.events)
             ELSE added

\* Execute a vested transfer from `source` to `target` with the given `schedule`.
\* A failure of add_vesting_schedule after the currency transfer is the
\* `expect` panicking.
do_vested_transfer(st, source, target, schedule) ==
    IF amount_low(schedule)
    THEN Outcome(st, "AmountLow", <<>>)
    ELSE IF validate(schedule) # "Ok"
    THEN Outcome(st, validate(schedule), <<>>)
    ELSE IF ~below_max_schedules(st, target)
    THEN Outcome(st, "AtMaxVestingSchedules", <<>>)
    ELSE IF ~can_transfer(st, source, target, correct(schedule).locked)
    THEN Outcome(st, "InsufficientBalance", <<>>)
    ELSE LET s     == correct(schedule)
             moved == [st EXCEPT !.free = transfer(st.free, source, target, s.locked)]
             added == add_vesting_schedule(
                          moved, target, s.locked, s.per_block, s.starting_block)
         IN  IF added.result # "Ok"
             THEN Outcome(added.st, "Panic", added.events)
             ELSE added

\* Equal indices are not short-circuited: the account is looked up first.
merge_schedules_without_same_index_exit(st, who, schedule1_index, schedule2_index) ==
    IF st.Vesting[who] = None
    THEN Outcome(st, "NotVesting", <<>>)
    ELSE LET vesting == st.Vesting[who][1]
         IN
         IF schedule1_index >= Len(vesting) \/ schedule2_index >= Len(vesting)
         THEN Outcome(st, "ScheduleIndexOutOfBounds", <<>>)
         ELSE
         LET schedule1 == vesting[schedule1_index + 1]
             schedule2 == vesting[schedule2_index + 1]
             r == report_schedule_updates(
                      vesting, Merge(schedule1_index, schedule2_index))
             m == merge_vesting_info(now, schedule1, schedule2)
         IN  IF m.result # "Ok"
             THEN Outcome(st, m.result, <<>>)
             ELSE IF m.schedule = None
             THEN write_vesting_and_lock(
                      st, who, r.schedules, r.total_locked_now, <<>>)
             ELSE IF Len(r.schedules) >= MaxVestingSchedules
             THEN Outcome(st, "AtMaxVestingSchedules", <<>>)
             ELSE LET new_schedule == m.schedule[1]
                  IN  write_vesting_and_lock(
                          st, who,
                          Append(r.schedules, new_schedule),
                          saturating_add(r.total_locked_now,
                                         locked_at(new_schedule, now)),
                          << <<"MergedScheduleAdded", new_schedule.locked,
                               new_schedule.per_block,
                               new_schedule.starting_block>> >>)

\* The indices are validated against the schedules that are still locked.
merge_schedules_validating_after_filter(st, who, schedule1_index, schedule2_index) ==
    IF schedule1_index = schedule2_index
    THEN Outcome(st, "Ok", <<>>)
    ELSE IF st.Vesting[who] = None
    THEN Outcome(st, "NotVesting", <<>>)
    ELSE LET filtered == report_schedule_updates(st.Vesting[who][1], Passive).schedules
         IN  IF schedule1_index >= Len(filtered) \/ schedule2_index >= Len(filtered)
             THEN Outcome(st, "ScheduleIndexOutOfBounds", <<>>)
             ELSE merge_schedules_without_same_index_exit(
                      st, who, schedule1_index, schedule2_index)

\* The merged schedule is put in front of the schedules that were kept.
merge_schedules_putting_merged_first(st, who, schedule1_index, schedule2_index) ==
    IF schedule1_index = schedule2_index
    THEN Outcome(st, "Ok", <<>>)
    ELSE IF st.Vesting[who] = None
    THEN Outcome(st, "NotVesting", <<>>)
    ELSE LET vesting == st.Vesting[who][1]
         IN
         IF schedule1_index >= Len(vesting) \/ schedule2_index >= Len(vesting)
         THEN Outcome(st, "ScheduleIndexOutOfBounds", <<>>)
         ELSE
         LET schedule1 == vesting[schedule1_index + 1]
             schedule2 == vesting[schedule2_index + 1]
             r == report_schedule_updates(
                      vesting, Merge(schedule1_index, schedule2_index))
             m == merge_vesting_info(now, schedule1, schedule2)
         IN  IF m.result # "Ok"
             THEN Outcome(st, m.result, <<>>)
             ELSE IF m.schedule = None
             THEN write_vesting_and_lock(
                      st, who, r.schedules, r.total_locked_now, <<>>)
             ELSE IF Len(r.schedules) >= MaxVestingSchedules
             THEN Outcome(st, "AtMaxVestingSchedules", <<>>)
             ELSE LET new_schedule == m.schedule[1]
                  IN  write_vesting_and_lock(
                          st, who,
                          <<new_schedule>> \o r.schedules,
                          saturating_add(r.total_locked_now,
                                         locked_at(new_schedule, now)),
                          << <<"MergedScheduleAdded", new_schedule.locked,
                               new_schedule.per_block,
                               new_schedule.starting_block>> >>)

\* The amount the merged schedule locks is not added to the amount written.
merge_schedules_not_counting_merged(st, who, schedule1_index, schedule2_index) ==
    IF schedule1_index = schedule2_index
    THEN Outcome(st, "Ok", <<>>)
    ELSE IF st.Vesting[who] = None
    THEN Outcome(st, "NotVesting", <<>>)
    ELSE LET vesting == st.Vesting[who][1]
         IN
         IF schedule1_index >= Len(vesting) \/ schedule2_index >= Len(vesting)
         THEN Outcome(st, "ScheduleIndexOutOfBounds", <<>>)
         ELSE
         LET schedule1 == vesting[schedule1_index + 1]
             schedule2 == vesting[schedule2_index + 1]
             r == report_schedule_updates(
                      vesting, Merge(schedule1_index, schedule2_index))
             m == merge_vesting_info(now, schedule1, schedule2)
         IN  IF m.result # "Ok"
             THEN Outcome(st, m.result, <<>>)
             ELSE IF m.schedule = None
             THEN write_vesting_and_lock(
                      st, who, r.schedules, r.total_locked_now, <<>>)
             ELSE IF Len(r.schedules) >= MaxVestingSchedules
             THEN Outcome(st, "AtMaxVestingSchedules", <<>>)
             ELSE LET new_schedule == m.schedule[1]
                  IN  write_vesting_and_lock(
                          st, who,
                          Append(r.schedules, new_schedule),
                          r.total_locked_now,
                          << <<"MergedScheduleAdded", new_schedule.locked,
                               new_schedule.per_block,
                               new_schedule.starting_block>> >>)

\* An error of merge_vesting_info is taken as "no merged schedule".
merge_schedules_ignoring_merge_error(st, who, schedule1_index, schedule2_index) ==
    IF schedule1_index = schedule2_index
    THEN Outcome(st, "Ok", <<>>)
    ELSE IF st.Vesting[who] = None
    THEN Outcome(st, "NotVesting", <<>>)
    ELSE LET vesting == st.Vesting[who][1]
         IN
         IF schedule1_index >= Len(vesting) \/ schedule2_index >= Len(vesting)
         THEN Outcome(st, "ScheduleIndexOutOfBounds", <<>>)
         ELSE
         LET schedule1 == vesting[schedule1_index + 1]
             schedule2 == vesting[schedule2_index + 1]
             r == report_schedule_updates(
                      vesting, Merge(schedule1_index, schedule2_index))
             m == merge_vesting_info(now, schedule1, schedule2)
         IN  IF m.result # "Ok" \/ m.schedule = None
             THEN write_vesting_and_lock(
                      st, who, r.schedules, r.total_locked_now, <<>>)
             ELSE IF Len(r.schedules) >= MaxVestingSchedules
             THEN Outcome(st, "AtMaxVestingSchedules", <<>>)
             ELSE LET new_schedule == m.schedule[1]
                  IN  write_vesting_and_lock(
                          st, who,
                          Append(r.schedules, new_schedule),
                          saturating_add(r.total_locked_now,
                                         locked_at(new_schedule, now)),
                          << <<"MergedScheduleAdded", new_schedule.locked,
                               new_schedule.per_block,
                               new_schedule.starting_block>> >>)

\* The merge_schedules dispatchable.
merge_schedules(st, who, schedule1_index, schedule2_index) ==
    IF schedule1_index = schedule2_index
    THEN Outcome(st, "Ok", <<>>)
    ELSE IF st.Vesting[who] = None
    THEN Outcome(st, "NotVesting", <<>>)
    ELSE LET vesting == st.Vesting[who][1]
         IN
         IF schedule1_index >= Len(vesting) \/ schedule2_index >= Len(vesting)
         THEN Outcome(st, "ScheduleIndexOutOfBounds", <<>>)
         ELSE
         LET schedule1 == vesting[schedule1_index + 1]
             schedule2 == vesting[schedule2_index + 1]
             r == report_schedule_updates(
                      vesting, Merge(schedule1_index, schedule2_index))
             m == merge_vesting_info(now, schedule1, schedule2)
         IN  IF m.result # "Ok"
             THEN Outcome(st, m.result, <<>>)
             ELSE IF m.schedule = None
             THEN write_vesting_and_lock(
                      st, who, r.schedules, r.total_locked_now, <<>>)
             ELSE IF Len(r.schedules) >= MaxVestingSchedules
             THEN Outcome(st, "AtMaxVestingSchedules", <<>>)
             ELSE LET new_schedule == m.schedule[1]
                  IN  write_vesting_and_lock(
                          st, who,
                          Append(r.schedules, new_schedule),
                          saturating_add(r.total_locked_now,
                                         locked_at(new_schedule, now)),
                          << <<"MergedScheduleAdded", new_schedule.locked,
                               new_schedule.per_block,
                               new_schedule.starting_block>> >>)

\* The fold of vesting_balance: the amount `schedules` lock at block n.
RECURSIVE total_locked_at(_, _)
total_locked_at(schedules, n) ==
    IF schedules = <<>>
    THEN 0
    ELSE saturating_add(locked_at(Head(schedules), n),
                        total_locked_at(Tail(schedules), n))

\* The amount is not capped by the free balance of the account.
vesting_balance_uncapped(st, who) ==
    IF st.Vesting[who] = None
    THEN None
    ELSE Some(total_locked_at(st.Vesting[who][1], now))

\* VestingSchedule::vesting_balance.
vesting_balance(st, who) ==
    IF st.Vesting[who] = None
    THEN None
    ELSE Some(Min(st.free[who], total_locked_at(st.Vesting[who][1], now)))

\* ------------------------------------------------------------ genesis
NoSchedule == VestingInfo(0, 0, 0)

\* try_append accepts an entry however many schedules are stored.
genesis_append_unbounded(schedules) == TRUE

\* Whether Vesting::try_append has room for the entry.
genesis_append_fits(schedules) == Len(schedules) < MaxVestingSchedules

\* One entry of GenesisConfig::vesting applied to the storage.
genesis_entry(g, entry) ==
    LET who     == entry[1]
        begin   == entry[2]
        length  == entry[3]
        liquid  == entry[4]
        balance == g.st.free[who]
        locked  == saturating_sub(balance, liquid)
        length_as_balance == BlockNumberToBalance(length)
        per_block == locked \div Max(length_as_balance, 1)
        vesting_info == VestingInfo(locked, per_block, begin)
        schedules == IF g.st.Vesting[who] = None THEN <<>> ELSE g.st.Vesting[who][1]
    IN  IF ~g.ok \/ balance = 0 \/ validate(vesting_info) # "Ok"
              \/ ~genesis_append_fits(schedules)
        THEN [ok |-> FALSE, st |-> g.st]
        ELSE [ok |-> TRUE,
              st |-> [g.st EXCEPT
                         !.Vesting[who] = Some(Append(schedules, vesting_info)),
                         !.locks[who] = Some(locked)]]

\* GenesisBuild::build: the entries applied in order; not ok when it panics.
RECURSIVE build(_, _)
build(g, config) ==
    IF config = <<>> THEN g ELSE build(genesis_entry(g, Head(config)), Tail(config))

\* The vesting genesis configurations considered: none, one entry, two and
\* three entries for the same account, and one entry too many (which panics:
\* no initial state).
GenesisConfigs ==
    {<<>>,
     << <<1, 1, 2, GenesisBalance - 2>> >>,
     << <<1, 1, 2, GenesisBalance - 2>>, <<1, 1, 1, GenesisBalance - 3>> >>,
     << <<1, 1, 2, GenesisBalance - 2>>, <<1, 1, 1, GenesisBalance - 3>>,
        <<1, 2, 1, GenesisBalance - 1>> >>,
     [i \in 1..(MaxVestingSchedules + 1) |-> <<1, 1, 2, GenesisBalance - 2>>]}

Endowed ==
    [free    |-> [a \in Accounts |-> GenesisBalance],
     locks   |-> [a \in Accounts |-> None],
     Vesting |-> [a \in Accounts |-> None]]

\* ------------------------------------------------------------ the state machine
Call(op, who, result) == [op |-> op, who |-> who, result |-> result]

\* The storage, events and call record after a call; the clock is untouched.
Apply(o, op, who) ==
    /\ free' = o.st.free
    /\ locks' = o.st.locks
    /\ Vesting' = o.st.Vesting
    /\ events' = o.events
    /\ last' = Call(op, who, o.result)
    /\ UNCHANGED now

\* A call that can create a schedule: counted when it changes storage.
ApplyCreating(o, op, who) ==
    /\ o.st = Storage \/ created < MaxCreated
    /\ Apply(o, op, who)
    /\ created' = IF o.st = Storage THEN created ELSE created + 1

Init ==
    \E config \in GenesisConfigs :
        LET g == build([ok |-> TRUE, st |-> Endowed], config)
        IN  /\ g.ok
            /\ now = 0
            /\ free = g.st.free
            /\ locks = g.st.locks
            /\ Vesting = g.st.Vesting
            /\ events = <<>>
            /\ last = Call("genesis", 0, "Ok")
            /\ created = 0

\* The schedules callers pass in: locked of zero, locked at the transfer
\* threshold, per_block of zero, per_block above locked, a plain schedule, and
\* one whose ending block is past the last block number.
Schedules ==
    {VestingInfo(0, 1, 0),
     VestingInfo(MinVestedTransfer, 1, 0),
     VestingInfo(MinVestedTransfer + 1, 0, 1),
     VestingInfo(MinVestedTransfer + 1, MinVestedTransfer + 2, 0),
     VestingInfo(MinVestedTransfer + 1, 1, 1),
     VestingInfo(MinVestedTransfer + 1, 1, BlockNumberMax - 1)}
\* The schedules handed to add_vesting_schedule.
AddSchedules ==
    {VestingInfo(0, 1, 0), VestingInfo(MinVestedTransfer + 1, 0, 1)}
Indices == 0..MaxVestingSchedules

Vest(who) ==
    /\ Apply(do_vest(Storage, who), "vest", who)
    /\ UNCHANGED created

VestOther(origin, target) ==
    /\ Apply(do_vest(Storage, target), "vest_other", target)
    /\ UNCHANGED created

VestedTransfer(transactor, target, schedule) ==
    ApplyCreating(do_vested_transfer(Storage, transactor, target, schedule),
                  "vested_transfer", target)

ForceVestedTransfer(source, target, schedule) ==
    ApplyCreating(do_vested_transfer(Storage, source, target, schedule),
                  "force_vested_transfer", target)

MergeSchedules(who, schedule1_index, schedule2_index) ==
    /\ Apply(merge_schedules(Storage, who, schedule1_index, schedule2_index),
             "merge_schedules", who)
    /\ UNCHANGED created

AddVestingSchedule(who, schedule) ==
    ApplyCreating(add_vesting_schedule(Storage, who, schedule.locked,
                                       schedule.per_block, schedule.starting_block),
                  "add_vesting_schedule", who)

RemoveVestingSchedule(who, schedule_index) ==
    /\ Apply(remove_vesting_schedule(Storage, who, schedule_index),
             "remove_vesting_schedule", who)
    /\ UNCHANGED created

\* Moving on to the next block unlocks the vested funds of every account, as
\* a block hook calling vest would.
AdvanceBlockVesting ==
    LET vest_of(st, who) == IF st.Vesting[who] = None THEN st ELSE do_vest(st, who).st
        st == vest_of(vest_of(Storage, 1), 2)
    IN  /\ now < MaxBlock
        /\ now' = now + 1
        /\ events' = <<>>
        /\ last' = Call("set_block_number", 0, "Ok")
        /\ locks' = st.locks
        /\ Vesting' = st.Vesting
        /\ UNCHANGED <<free, created>>

\* frame_system moving on to the next block.
AdvanceBlock ==
    /\ now < MaxBlock
    /\ now' = now + 1
    /\ events' = <<>>
    /\ last' = Call("set_block_number", 0, "Ok")
    /\ UNCHANGED <<free, locks, Vesting, created>>

Next ==
    \/ \E who \in Accounts : Vest(who)
    \/ \E origin \in Accounts, target \in Accounts : VestOther(origin, target)
    \/ \E transactor \in Accounts, target \in Accounts, schedule \in Schedules :
           VestedTransfer(transactor, target, schedule)
    \/ \E source \in Accounts, target \in Accounts, schedule \in Schedules :
           ForceVestedTransfer(source, target, schedule)
    \/ \E who \in Accounts, i \in Indices, j \in Indices : MergeSchedules(who, i, j)
    \/ \E who \in Accounts, schedule \in AddSchedules : AddVestingSchedule(who, schedule)
    \/ \E who \in Accounts, i \in Indices : RemoveVestingSchedule(who, i)
    \/ AdvanceBlock

Spec == Init /\ [][Next]_vars

\* The dispatchable calls only (no direct use of the VestingSchedule trait).
NextDispatch ==
    \/ \E who \in Accounts : Vest(who)
    \/ \E origin \in Accounts, target \in Accounts : VestOther(origin, target)
    \/ \E transactor \in Accounts, target \in Accounts, schedule \in Schedules :
           VestedTransfer(transactor, target, schedule)
    \/ \E source \in Accounts, target \in Accounts, schedule \in Schedules :
           ForceVestedTransfer(source, target, schedule)
    \/ \E who \in Accounts, i \in Indices, j \in Indices : MergeSchedules(who, i, j)
    \/ AdvanceBlock

SpecDispatch == Init /\ [][NextDispatch]_vars

\* A read of VestingSchedule::vesting_balance: it writes no storage and
\* deposits no event; the call record keeps whether it returned Some or None.
VestingBalance(who) ==
    /\ last' = Call("vesting_balance", who,
                     IF vesting_balance(Storage, who) = None THEN "None" ELSE "Some")
    /\ UNCHANGED <<now, free, locks, Vesting, events, created>>

\* The calls of Next interleaved with reads of vesting_balance.
NextBalance ==
    \/ Next
    \/ \E who \in Accounts : VestingBalance(who)

SpecBalance == Init /\ [][NextBalance]_vars

\* ------------------------------------------------------------ merging arbitrary schedules
\* The schedules an account may hold: any locked amount above zero, any
\* per_block (zero and above `locked` included, as add_vesting_schedule stores
\* them), any starting block up to the last block of the clock.
MergeInputs ==
    {VestingInfo(locked, per_block, starting_block) :
         locked \in 1..MergeLockedMax,
         per_block \in 0..MergeLockedMax,
         starting_block \in 0..MaxBlock}

\* Account 1 holds two schedules, recorded at block 0, at some later block.
InitMerge ==
    \E a \in MergeInputs, b \in MergeInputs, n \in 0..MaxBlock :
        /\ now = n
        /\ Vesting = [who \in Accounts |-> IF who = 1 THEN Some(<<a, b>>) ELSE None]
        /\ locks = [who \in Accounts |->
                        IF who = 1 THEN Some(saturating_add(a.locked, b.locked))
                        ELSE None]
        /\ free = [who \in Accounts |->
                       IF who = 1
                       THEN saturating_add(GenesisBalance,
                                           saturating_add(a.locked, b.locked))
                       ELSE GenesisBalance]
        /\ events = <<>>
        /\ last = Call("set_block_number", 0, "Ok")
        /\ created = MaxCreated

NextMerge ==
    \E who \in Accounts, i \in Indices, j \in Indices : MergeSchedules(who, i, j)

SpecMerge == InitMerge /\ [][NextMerge]_vars


\* ------------------------------------------------------------ vocabulary of the claims
\* The stored schedules of an account (empty when it has no entry).
stored(who) == IF Vesting[who] = None THEN <<>> ELSE Vesting[who][1]

\* The schedules of a sequence that still lock something at block n, in order.
still_locked(schedules, n) == SelectSeq(schedules, LAMBDA s : locked_at(s, n) > 0)

\* The lock of `who` is the amount its stored schedules lock at the current block.
lock_matches_schedules(who) ==
    Vesting[who] # None => locks[who] = Some(total_locked_at(Vesting[who][1], now))

TransferOps == {"vested_transfer", "force_vested_transfer"}
VestOps == {"vest", "vest_other"}
WritingOps ==
    VestOps \cup TransferOps
        \cup {"merge_schedules", "add_vesting_schedule", "remove_vesting_schedule"}

\* A vested or forced vested transfer of `schedule` from `source` to `target`.
Transfers(source, target, schedule) ==
    /\ last'.who = target
    /\ \/ last'.op = "vested_transfer"
              /\ VestedTransfer(source, target, schedule)
       \/ last'.op = "force_vested_transfer"
              /\ ForceVestedTransfer(source, target, schedule)

StorageUnchanged == UNCHANGED <<free, locks, Vesting>>

\* ------------------------------------------------------------ C1
\* C1 as stated: after every successful vest, vest_other, add_vesting_schedule,
\* remove_vesting_schedule, vested_transfer, force_vested_transfer or
\* merge_schedules, if the affected account still has a stored schedule set,
\* its lock equals the sum of locked_at(s, now) over the stored schedules.
C1_LockEqualsSumAfterEverySuccess ==
    (last.op \in WritingOps /\ last.result = "Ok") => lock_matches_schedules(last.who)

\* C1 amended: the same, for every successful call except the two documented
\* no-ops, merge_schedules with equal indices and add_vesting_schedule with
\* locked = 0, which write nothing and leave an earlier block's lock in place.
C1_LockEqualsSumAfterWrite ==
    [][\A who \in Accounts :
          (/\ last'.result = "Ok"
           /\ last'.who = who
           /\ \/ last'.op = "vest" /\ Vest(who)
              \/ last'.op = "vest_other"
                     /\ \E origin \in Accounts : VestOther(origin, who)
              \/ last'.op \in TransferOps
                     /\ \E source \in Accounts, schedule \in Schedules :
                            Transfers(source, who, schedule)
              \/ last'.op = "merge_schedules"
                     /\ \E i \in Indices, j \in Indices :
                            i # j /\ MergeSchedules(who, i, j)
              \/ last'.op = "add_vesting_schedule"
                     /\ \E schedule \in AddSchedules :
                            schedule.locked # 0 /\ AddVestingSchedule(who, schedule)
              \/ last'.op = "remove_vesting_schedule"
                     /\ \E i \in Indices : RemoveVestingSchedule(who, i))
          => lock_matches_schedules(who)']_vars

\* A merge that produced a schedule and left the account with a stored set.
C1_Witness ==
    /\ last.op = "merge_schedules"
    /\ last.result = "Ok"
    /\ Len(events) = 2
    /\ Len(stored(last.who)) >= 2

\* ------------------------------------------------------------ C2
\* C2: in every state reachable from genesis through the dispatchable calls and
\* block advances, the lock of every account with a stored schedule set is at
\* least the sum of locked_at(s, now) over its stored schedules.
C2_LockCoversUnvested ==
    \A who \in Accounts :
        Vesting[who] # None
            => lock_amount(locks, who) >= total_locked_at(Vesting[who][1], now)

\* ------------------------------------------------------------ C3
\* C3: an account has a stored schedule-set entry iff it has a vesting lock,
\* and a stored schedule set is never empty.
C3_EntryIffLock ==
    \A who \in Accounts :
        /\ (Vesting[who] # None) <=> (locks[who] # None)
        /\ Vesting[who] # Some(<<>>)

\* A vest that computed a total of zero: entry and lock are gone together.
C3_Witness ==
    /\ last.op \in VestOps
    /\ last.result = "Ok"
    /\ events = << <<"VestingCompleted", last.who>> >>
    /\ Vesting[last.who] = None
    /\ locks[last.who] = None

\* ------------------------------------------------------------ C4
\* C4: the number of schedules stored for any account is at most
\* MaxVestingSchedules.
C4_AtMostMaxSchedules ==
    \A who \in Accounts : Len(stored(who)) <= MaxVestingSchedules

\* An account at capacity on which a further transfer was just refused.
C4_Witness ==
    /\ last.op \in TransferOps
    /\ last.result = "AtMaxVestingSchedules"
    /\ Len(stored(last.who)) = MaxVestingSchedules

\* ------------------------------------------------------------ C5
\* C5: immediately after genesis, the lock of every account given one or more
\* genesis entries equals the sum of locked_at(s, now) over its stored schedules.
C5_GenesisLockEqualsSum ==
    last.op = "genesis" => \A who \in Accounts : lock_matches_schedules(who)


\* ------------------------------------------------------------ C6
\* C6 as stated: when the target already stores MaxVestingSchedules schedules,
\* vested_transfer / force_vested_transfer (and add_vesting_schedule) fails with
\* AtMaxVestingSchedules and leaves stored schedules, locks and free balances
\* unchanged, whether or not stored schedules are already fully unlocked.
C6_FullTargetAlwaysAtMax ==
    [][\A target \in Accounts :
          (/\ last'.who = target
           /\ Len(stored(target)) = MaxVestingSchedules
           /\ \/ \E source \in Accounts, schedule \in Schedules :
                     Transfers(source, target, schedule)
              \/ \E schedule \in AddSchedules : AddVestingSchedule(target, schedule))
          => (last'.result = "AtMaxVestingSchedules" /\ StorageUnchanged)]_vars

\* C6 amended: when the target already stores MaxVestingSchedules schedules,
\* every vested_transfer / force_vested_transfer / add_vesting_schedule leaves
\* stored schedules, locks and free balances unchanged, whether or not stored
\* schedules are already fully unlocked; it fails with AtMaxVestingSchedules
\* when the schedule passes the checks made first (a transfer with
\* locked > MinVestedTransfer and per_block > 0, an add with locked > 0), with
\* AmountLow or InvalidScheduleParams when a transfer's schedule does not, and
\* an add with locked = 0 returns Ok.
C6_FullTargetRefused ==
    [][\A target \in Accounts :
          (last'.who = target /\ Len(stored(target)) = MaxVestingSchedules) =>
              /\ \A source \in Accounts, schedule \in Schedules :
                     Transfers(source, target, schedule) =>
                         /\ StorageUnchanged
                         /\ last'.result =
                                IF ~(schedule.locked > MinVestedTransfer)
                                THEN "AmountLow"
                                ELSE IF schedule.per_block = 0
                                THEN "InvalidScheduleParams"
                                ELSE "AtMaxVestingSchedules"
              /\ \A schedule \in AddSchedules :
                     AddVestingSchedule(target, schedule) =>
                         /\ StorageUnchanged
                         /\ last'.result = IF schedule.locked = 0
                                           THEN "Ok"
                                           ELSE "AtMaxVestingSchedules"]_vars

\* A transfer refused for capacity although a stored schedule has fully
\* unlocked and would be dropped by the next recomputation.
C6_Witness ==
    /\ last.op \in TransferOps
    /\ last.result = "AtMaxVestingSchedules"
    /\ Len(stored(last.who)) = MaxVestingSchedules
    /\ Len(still_locked(stored(last.who), now)) < MaxVestingSchedules

\* ------------------------------------------------------------ C7
\* C7: a vested / forced vested transfer fails with AmountLow exactly when
\* schedule.locked <= MinVestedTransfer (locked = 0 included); with
\* locked = MinVestedTransfer + 1, per_block >= 1, a source that can pay and a
\* target below capacity it succeeds.  Stated of the call's outcome in every
\* reachable state.
C7_AmountLowExactlyAtThreshold ==
    \A source \in Accounts, target \in Accounts, schedule \in Schedules :
        LET o == do_vested_transfer(Storage, source, target, schedule)
        IN  /\ (o.result = "AmountLow") <=> (schedule.locked <= MinVestedTransfer)
            /\ (/\ schedule.locked = MinVestedTransfer + 1
                /\ schedule.per_block >= 1
                /\ can_transfer(Storage, source, target, schedule.locked)
                /\ below_max_schedules(Storage, target))
                   => o.result = "Ok"

\* A transfer just refused with AmountLow.
C7_Witness ==
    /\ last.op \in TransferOps
    /\ last.result = "AmountLow"
    /\ created = 0

\* ------------------------------------------------------------ C8
\* C8: every failing vested / forced vested transfer (AmountLow,
\* InvalidScheduleParams, AtMaxVestingSchedules, failed currency transfer)
\* leaves every free balance, stored schedule set and lock unchanged.
C8_FailedTransferChangesNothing ==
    [][(/\ last'.op \in TransferOps
        /\ last'.result # "Ok"
        /\ \E source \in Accounts, target \in Accounts, schedule \in Schedules :
               Transfers(source, target, schedule))
       => StorageUnchanged]_vars

\* A transfer that failed in the currency transfer, the last check.
C8_Witness ==
    /\ last.op \in TransferOps
    /\ last.result = "InsufficientBalance"

\* ------------------------------------------------------------ C9
\* What C9 says of the target's stored set after a successful transfer.
appended_to_still_locked(target, schedule) ==
    Vesting'[target] = Some(Append(still_locked(stored(target), now), correct(schedule)))

\* C9 as stated: a successful vested transfer of schedule s, not yet fully
\* unlocked at `now`, decreases the source's free balance by s.locked,
\* increases the target's by s.locked, and leaves the target's stored set equal
\* to its previous schedules still locked at `now`, in order, followed by
\* correct(s).
C9_TransferMovesAndAppends ==
    [][\A source \in Accounts, target \in Accounts, schedule \in Schedules :
          (/\ last'.op \in TransferOps
           /\ last'.result = "Ok"
           /\ locked_at(schedule, now) > 0
           /\ Transfers(source, target, schedule))
          => /\ free'[source] = free[source] - schedule.locked
             /\ free'[target] = free[target] + schedule.locked
             /\ appended_to_still_locked(target, schedule)]_vars

\* C9 amended: the same when source and target are different accounts; when
\* they are the same account its free balance is unchanged, and the stored set
\* is as stated in both cases.
C9_TransferAppends ==
    [][\A source \in Accounts, target \in Accounts, schedule \in Schedules :
          (/\ last'.op \in TransferOps
           /\ last'.result = "Ok"
           /\ locked_at(schedule, now) > 0
           /\ Transfers(source, target, schedule))
          => /\ source # target =>
                    /\ free'[source] = free[source] - schedule.locked
                    /\ free'[target] = free[target] + schedule.locked
             /\ source = target => free'[source] = free[source]
             /\ appended_to_still_locked(target, schedule)]_vars

\* A transfer that dropped an unlocked schedule of the target and appended the
\* new one behind one that is still locked.
C9_Witness ==
    /\ last.op \in TransferOps
    /\ last.result = "Ok"
    /\ Len(stored(last.who)) = 2
    /\ created = 1
    /\ now = 2
    /\ free[last.who] > GenesisBalance

\* ------------------------------------------------------------ C10
\* C10: once the currency transfer of do_vested_transfer has succeeded,
\* add_vesting_schedule never fails (the `expect` never panics).
C10_AddAfterTransferNeverFails == last.result # "Panic"

\* A transfer that filled the target's last free slot.
C10_Witness ==
    /\ last.op \in TransferOps
    /\ last.result = "Ok"
    /\ Len(stored(last.who)) = MaxVestingSchedules

\* ------------------------------------------------------------ C11
\* C11: vest / vest_other on an account with no stored schedule set fails with
\* NotVesting and changes no state: no lock written or removed, no event.
\* Stated of the call's outcome in every reachable state.
C11_VestWithoutSchedulesFails ==
    \A who \in Accounts :
        Vesting[who] = None
            => do_vest(Storage, who) = Outcome(Storage, "NotVesting", <<>>)

\* A vest just refused with NotVesting on an account without an entry.
C11_Witness ==
    /\ last.op \in VestOps
    /\ last.result = "NotVesting"
    /\ Vesting[last.who] = None
    /\ events = <<>>

\* ------------------------------------------------------------ C12
\* Every stored schedule of `who` has an ending block, and it is at or before
\* the current block.
all_ended(who) ==
    \A i \in 1..Len(stored(who)) :
        /\ ending_block(stored(who)[i]).ok
        /\ ending_block(stored(who)[i]).val <= BlockNumberToBalance(now)

\* A vest of `who` in the current state deletes its entry, removes its lock
\* and emits VestingCompleted.
vest_completes(who) ==
    LET o == do_vest(Storage, who)
    IN  /\ o.result = "Ok"
        /\ o.st.Vesting[who] = None
        /\ o.st.locks[who] = None
        /\ o.events = << <<"VestingCompleted", who>> >>

\* C12 as stated: a vest (or vest_other) for an account at a block at or after
\* the ending block of every schedule stored for it deletes the entry, removes
\* the lock and emits VestingCompleted.
C12_VestAfterEndCompletes ==
    \A who \in Accounts :
        (Vesting[who] # None /\ all_ended(who)) => vest_completes(who)

\* C12 amended: the same when every stored schedule has per_block > 0.  A
\* stored schedule with per_block = 0 (add_vesting_schedule stores one without
\* validation) has an ending block but never unlocks: a vest keeps it and a
\* lock of at least its locked amount, at every block.
C12_VestAfterEndCompletesUnlessPerBlockZero ==
    \A who \in Accounts :
        Vesting[who] # None =>
            /\ (/\ all_ended(who)
                /\ \A i \in 1..Len(stored(who)) : stored(who)[i].per_block > 0)
                   => vest_completes(who)
            /\ \A i \in 1..Len(stored(who)) :
                   stored(who)[i].per_block = 0 =>
                       LET o == do_vest(Storage, who)
                       IN  /\ o.result = "Ok"
                           /\ o.st.Vesting[who] # None
                           /\ \E k \in 1..Len(o.st.Vesting[who][1]) :
                                  o.st.Vesting[who][1][k] = stored(who)[i]
                           /\ lock_amount(o.st.locks, who) >= stored(who)[i].locked

\* A vest_other at the last block that completed an account holding schedules
\* from genesis only.
C12_Witness ==
    /\ last.op = "vest_other"
    /\ last.result = "Ok"
    /\ now = MaxBlock
    /\ created = 0
    /\ events = << <<"VestingCompleted", last.who>> >>
    /\ Vesting[last.who] = None

\* ------------------------------------------------------------ C13
\* C13: merge_schedules with schedule1_index = schedule2_index returns success
\* and changes nothing (stored schedules, lock, events), for any account state:
\* no schedules, an index out of range, schedules that have ended.  Stated of
\* the call's outcome in every reachable state.
C13_MergeSameIndexIsNoOp ==
    \A who \in Accounts, i \in Indices :
        merge_schedules(Storage, who, i, i) = Outcome(Storage, "Ok", <<>>)

\* A merge that returned Ok on an account without schedules: equal indices.
C13_Witness ==
    /\ last.op = "merge_schedules"
    /\ last.result = "Ok"
    /\ events = <<>>
    /\ Vesting[last.who] = None
    /\ locks[last.who] = None

\* ------------------------------------------------------------ C14
\* C14: merge_schedules with distinct indices fails with NotVesting when the
\* account has no stored set, and with ScheduleIndexOutOfBounds exactly when
\* either index is not a position of the stored sequence as it is before any
\* ended schedule is filtered out; in both cases stored schedules and lock are
\* unchanged.  Stated of the call's outcome in every reachable state.
C14_MergeIndexErrors ==
    \A who \in Accounts, i \in Indices, j \in Indices :
        i # j =>
            LET o == merge_schedules(Storage, who, i, j)
                positions == 0..(Len(stored(who)) - 1)
            IN  /\ Vesting[who] = None
                       => o = Outcome(Storage, "NotVesting", <<>>)
                /\ (Vesting[who] # None /\ (i \notin positions \/ j \notin positions))
                       => o = Outcome(Storage, "ScheduleIndexOutOfBounds", <<>>)
                /\ (Vesting[who] # None /\ i \in positions /\ j \in positions)
                       => o.result \notin {"NotVesting", "ScheduleIndexOutOfBounds"}

\* A merge refused for an index past the end of an account's stored sequence
\* in which a schedule has already ended.
C14_Witness ==
    /\ last.op = "merge_schedules"
    /\ last.result = "ScheduleIndexOutOfBounds"
    /\ Len(stored(last.who)) >= 2
    /\ Len(still_locked(stored(last.who), now)) < Len(stored(last.who))

\* ------------------------------------------------------------ C15
\* Positions (0-based) of the stored sequence of an account.
positions(who) == 0..(Len(stored(who)) - 1)

\* The schedule has an ending block and it is at or before block n.
ended(s, n) == ending_block(s).ok /\ ending_block(s).val <= BlockNumberToBalance(n)

\* The schedule has an ending block and it is after block n.
unended(s, n) == ending_block(s).ok /\ ending_block(s).val > BlockNumberToBalance(n)

\* The stored schedules of `who` at positions other than i and j that still
\* lock something at the current block, in their stored order.
untouched_still_locked(who, i, j) ==
    LET kept == SelectSeq([k \in 1..Len(stored(who)) |-> k],
                          LAMBDA k : /\ k - 1 \notin {i, j}
                                     /\ locked_at(stored(who)[k], now) > 0)
    IN  [n \in 1..Len(kept) |-> stored(who)[kept[n]]]

\* No MergedScheduleAdded among a call's events.
no_merged_schedule_added(evs) ==
    \A k \in 1..Len(evs) : evs[k][1] # "MergedScheduleAdded"

\* C15: merging two schedules that have both ended by the current block removes
\* both, adds no replacement and emits no MergedScheduleAdded; if no other
\* schedule of the account is still locked, the entry is deleted and the lock
\* removed.  Stated of the call's outcome in every reachable state.
C15_MergeOfEndedSchedulesRemovesBoth ==
    \A who \in Accounts, i \in Indices, j \in Indices :
        (/\ i # j /\ i \in positions(who) /\ j \in positions(who)
         /\ ended(stored(who)[i + 1], now)
         /\ ended(stored(who)[j + 1], now))
        => LET o    == merge_schedules(Storage, who, i, j)
               rest == untouched_still_locked(who, i, j)
           IN  /\ o.result = "Ok"
               /\ no_merged_schedule_added(o.events)
               /\ o.st.Vesting[who] = IF rest = <<>> THEN None ELSE Some(rest)
               /\ rest = <<>> => o.st.locks[who] = None

\* A merge of two different positions that added no schedule and left the
\* account without entry and lock.
C15_Witness ==
    /\ last.op = "merge_schedules"
    /\ last.result = "Ok"
    /\ events = << <<"VestingCompleted", last.who>> >>
    /\ Vesting[last.who] = None
    /\ locks[last.who] = None

\* ------------------------------------------------------------ C16
\* C16: when exactly one of the two schedules being merged has ended by the
\* current block, the other is kept with all three fields unmodified (not
\* re-based to `now`) and becomes the last element of the stored sequence, and
\* the ended one is dropped.  Stated of the call's outcome in every reachable
\* state.
C16_MergeWithEndedKeepsOther ==
    \A who \in Accounts, i \in Indices, j \in Indices :
        (/\ i # j /\ i \in positions(who) /\ j \in positions(who)
         /\ ended(stored(who)[i + 1], now)
         /\ unended(stored(who)[j + 1], now))
        => LET rest     == untouched_still_locked(who, i, j)
               survivor == stored(who)[j + 1]
           IN  /\ merge_schedules(Storage, who, i, j).result = "Ok"
               /\ merge_schedules(Storage, who, j, i).result = "Ok"
               /\ merge_schedules(Storage, who, i, j).st.Vesting[who]
                      = Some(Append(rest, survivor))
               /\ merge_schedules(Storage, who, j, i).st.Vesting[who]
                      = Some(Append(rest, survivor))

\* A merge that added a schedule starting before the current block: the
\* schedule that had not ended, kept as it was.
C16_Witness ==
    /\ last.op = "merge_schedules"
    /\ last.result = "Ok"
    /\ Len(events) = 2
    /\ events[1][1] = "MergedScheduleAdded"
    /\ events[1][4] < now
    /\ stored(last.who)[Len(stored(last.who))].starting_block < now

\* ------------------------------------------------------------ C17
\* What C17 says the merge of a and b at block n is.
merged_as_claimed(a, b, n) ==
    LET locked         == locked_at(a, n) + locked_at(b, n)
        starting_block == Max(n, Max(a.starting_block, b.starting_block))
        duration       == Max(ending_block(a).val, ending_block(b).val)
                              - starting_block
        per_block      == IF duration > locked THEN 1 ELSE locked \div duration
    IN  VestingInfo(locked, per_block, starting_block)

\* C17: for two schedules a and b that have both not ended at `now`, merge
\* returns the schedule with locked = locked_at(a, now) + locked_at(b, now),
\* starting_block = max(now, a.starting_block, b.starting_block) and
\* per_block = 1 if duration > locked, else floor(locked / duration), where
\* duration = max(ending(a), ending(b)) - starting_block.  Stated of every
\* pair of stored schedules, and of the sequence merge_schedules stores.
C17_MergeOfUnendedSchedules ==
    \A who \in Accounts, i \in Indices, j \in Indices :
        (/\ i # j /\ i \in positions(who) /\ j \in positions(who)
         /\ unended(stored(who)[i + 1], now)
         /\ unended(stored(who)[j + 1], now))
        => LET a == stored(who)[i + 1]
               b == stored(who)[j + 1]
               o == merge_schedules(Storage, who, i, j)
           IN  /\ merge_vesting_info(now, a, b)
                      = [result |-> "Ok", schedule |-> Some(merged_as_claimed(a, b, now))]
               /\ o.result = "Ok"
               /\ o.st.Vesting[who]
                      = Some(Append(untouched_still_locked(who, i, j),
                                    merged_as_claimed(a, b, now)))

\* A merge of two running schedules of different starting blocks, after the
\* first has started: the merged schedule is the only one left and starts at
\* the current block.
C17_Witness ==
    /\ last.op = "merge_schedules"
    /\ last.result = "Ok"
    /\ now > 0
    /\ Len(events) = 2
    /\ events[1][1] = "MergedScheduleAdded"
    /\ events[1][4] = now
    /\ events[1][3] > 1
    /\ stored(last.who) = <<VestingInfo(events[1][2], events[1][3], events[1][4])>>

\* ------------------------------------------------------------ C18
\* C18: the schedule produced by merging two schedules that have both not
\* ended has ending_block equal to the later of the two original ending
\* blocks.
C18_MergedEndsAtLaterEnd ==
    \A who \in Accounts, i \in Indices, j \in Indices :
        (/\ i # j /\ i \in positions(who) /\ j \in positions(who)
         /\ unended(stored(who)[i + 1], now)
         /\ unended(stored(who)[j + 1], now))
        => LET a == stored(who)[i + 1]
               b == stored(who)[j + 1]
               m == merge_vesting_info(now, a, b)
           IN  /\ m.result = "Ok"
               /\ m.schedule # None
               /\ ending_block(m.schedule[1]).ok
               /\ ending_block(m.schedule[1]).val
                      = Max(ending_block(a).val, ending_block(b).val)

C20_MergeIsCommutative ==
    \A who \in Accounts, i \in Indices, j \in Indices :
        (/\ i # j /\ i \in positions(who) /\ j \in positions(who)
         /\ unended(stored(who)[i + 1], now)
         /\ unended(stored(who)[j + 1], now))
        => /\ merge_vesting_info(now, stored(who)[i + 1], stored(who)[j + 1])
                  = merge_vesting_info(now, stored(who)[j + 1], stored(who)[i + 1])
           /\ merge_schedules(Storage, who, i, j) = merge_schedules(Storage, who, j, i)

\* A merge, before either has started, of two schedules that start at
\* different blocks: the merged schedule starts at the later one.
C20_Witness ==
    /\ last.op = "merge_schedules"
    /\ last.result = "Ok"
    /\ now = 0
    /\ Len(events) = 2
    /\ events[1][1] = "MergedScheduleAdded"
    /\ events[1][4] = MaxBlock
    /\ stored(last.who) = <<VestingInfo(events[1][2], events[1][3], events[1][4])>>

\* ------------------------------------------------------------ C21
\* The lock merge_schedules(i, j) writes for `who` is the lock a vest of `who`
\* would write in the same state.
merge_writes_lock_of_vest(who, i, j) ==
    LET o == merge_schedules(Storage, who, i, j)
    IN  o.result = "Ok" => o.st.locks[who] = do_vest(Storage, who).st.locks[who]

ended_without_unlocking(s, n) == s.per_block = 0 /\ ended(s, n)

C22_MergeOfIdenticalDoubles ==
    \A who \in Accounts, i \in Indices, j \in Indices :
        (/\ i # j /\ i \in positions(who) /\ j \in positions(who)
         /\ stored(who)[i + 1] = stored(who)[j + 1]
         /\ now <= stored(who)[i + 1].starting_block
         /\ stored(who)[i + 1].per_block >= 1
         /\ stored(who)[i + 1].locked % stored(who)[i + 1].per_block = 0
         /\ ending_block(stored(who)[i + 1]).ok)
        => LET s == stored(who)[i + 1]
               doubled == VestingInfo(2 * s.locked, 2 * s.per_block, s.starting_block)
               o == merge_schedules(Storage, who, i, j)
           IN  /\ merge_vesting_info(now, s, s)
                      = [result |-> "Ok", schedule |-> Some(doubled)]
               /\ o.result = "Ok"
               /\ o.st.Vesting[who]
                      = Some(Append(untouched_still_locked(who, i, j), doubled))
               /\ ending_block(doubled) = ending_block(s)

\* A merge before the starting block that left one schedule of twice the
\* largest locked amount, unlocking 2 per block from the last block on.
C22_Witness ==
    /\ last.op = "merge_schedules"
    /\ last.result = "Ok"
    /\ now = 0
    /\ stored(last.who) = <<VestingInfo(2 * MergeLockedMax, 2, MaxBlock)>>
    /\ events[1] = <<"MergedScheduleAdded", 2 * MergeLockedMax, 2, MaxBlock>>

\* ------------------------------------------------------------ C23
\* The blocks at which the locked amount of a schedule is evaluated.
Blocks == 0..BlockNumberMax

\* locked_at(s, .) never increases from one block to the next.
non_increasing(s) ==
    \A t \in Blocks : locked_at(s, t + 1) <= locked_at(s, t)

\* locked_at(s, .) is 0 at the ending block of s and at every block after
\* it, and a recomputation at or after that block drops the schedule.
zero_from_ending_block(s) ==
    ending_block(s).ok =>
        /\ locked_at(s, ending_block(s).val) = 0
        /\ \A t \in Blocks : t >= ending_block(s).val => locked_at(s, t) = 0
        /\ ended(s, now) =>
               report_schedule_updates(<<s>>, Passive)
                   = [schedules |-> <<>>, total_locked_now |-> 0]

\* C23 as stated: for every schedule, locked_at(schedule, t) is non-increasing
\* in t, exactly 0 at the schedule's ending block and 0 at every later block.
\* Stated of every stored schedule.
C23_LockedAtReachesZeroAtEnd ==
    \A who \in Accounts : \A k \in positions(who) :
        /\ non_increasing(stored(who)[k + 1])
        /\ zero_from_ending_block(stored(who)[k + 1])

\* C23 amended: locked_at(schedule, t) is non-increasing in t for every
\* schedule; for every schedule with per_block >= 1 it is exactly 0 at the
\* ending block and at every later block.  (A schedule with per_block = 0
\* locks its whole amount at every block, also from its ending block on.)
C23_LockedAtReachesZeroAtEndUnlessPerBlockZero ==
    \A who \in Accounts : \A k \in positions(who) :
        /\ non_increasing(stored(who)[k + 1])
        /\ stored(who)[k + 1].per_block >= 1
               => zero_from_ending_block(stored(who)[k + 1])
        /\ stored(who)[k + 1].per_block = 0
               => \A t \in Blocks :
                      locked_at(stored(who)[k + 1], t) = stored(who)[k + 1].locked

\* A stored schedule that unlocked over several blocks stands at its ending
\* block: something was locked one block earlier, nothing is locked now.
C23_Witness ==
    \E k \in positions(1) :
        LET s == stored(1)[k + 1]
        IN  /\ s.per_block >= 1
            /\ s.starting_block + 2 <= now
            /\ ending_block(s).ok
            /\ ending_block(s).val = now
            /\ locked_at(s, now - 1) > 0
            /\ locked_at(s, now - 1) < s.locked
            /\ locked_at(s, now) = 0

\* ------------------------------------------------------------ C24
\* The schedule unlocks at least 1 and at most its locked amount per block.
per_block_in_range(s) == 1 <= s.per_block /\ s.per_block <= s.locked

\* The schedule a transfer outcome left last in the target's stored set.
last_stored(o, target) ==
    o.st.Vesting[target][1][Len(o.st.Vesting[target][1])]

\* C24 as stated: after `correct`, 1 <= per_block <= locked always holds for
\* the returned schedule.  Stated of `correct` applied to every stored
\* schedule.
C24_CorrectedPerBlockInRange ==
    \A who \in Accounts : \A k \in positions(who) :
        per_block_in_range(correct(stored(who)[k + 1]))

\* C24 amended: after `correct` of a schedule that `validate` accepts
\* (locked > 0 and per_block > 0), 1 <= per_block <= locked holds for the
\* returned schedule; and the schedule a successful transfer stores is the
\* corrected one, so it is in that range.
C24_CorrectedPerBlockInRangeIfValid ==
    /\ \A who \in Accounts : \A k \in positions(who) :
           validate(stored(who)[k + 1]) = "Ok"
               => per_block_in_range(correct(stored(who)[k + 1]))
    /\ \A source \in Accounts, target \in Accounts, schedule \in Schedules :
           LET o == do_vested_transfer(Storage, source, target, schedule)
           IN  (o.result = "Ok" /\ locked_at(correct(schedule), now) > 0)
                   => /\ validate(schedule) = "Ok"
                      /\ per_block_in_range(correct(schedule))
                      /\ last_stored(o, target) = correct(schedule)
                      /\ per_block_in_range(last_stored(o, target))

\* A transfer of a schedule with per_block above locked was stored with
\* per_block equal to locked.
C24_Witness ==
    /\ last.op \in TransferOps
    /\ last.result = "Ok"
    /\ now = 0
    /\ stored(last.who) # <<>>
    /\ stored(last.who)[Len(stored(last.who))]
           = VestingInfo(MinVestedTransfer + 1, MinVestedTransfer + 1, 0)

\* ------------------------------------------------------------ C25
\* `validate` accepts correct(s), and `correct` leaves correct(s) as it is.
corrected_is_valid(s) ==
    /\ validate(correct(s)) = "Ok"
    /\ correct(correct(s)) = correct(s)

\* C25 as stated: validate(correct(s)) == Ok(correct(s)) for any schedule s
\* with locked > 0.  Stated of every stored schedule.
C25_CorrectedIsValid ==
    \A who \in Accounts : \A k \in positions(who) :
        stored(who)[k + 1].locked > 0 => corrected_is_valid(stored(who)[k + 1])

\* C25 amended: validate(correct(s)) == Ok(correct(s)) for any schedule s
\* with locked > 0 and per_block > 0; a transfer of correct(s) then has the
\* outcome of the transfer of s.
C25_CorrectedIsValidIfPerBlockNonZero ==
    /\ \A who \in Accounts : \A k \in positions(who) :
           (stored(who)[k + 1].locked > 0 /\ stored(who)[k + 1].per_block > 0)
               => corrected_is_valid(stored(who)[k + 1])
    /\ \A source \in Accounts, target \in Accounts, schedule \in Schedules :
           (schedule.locked > 0 /\ schedule.per_block > 0)
               => /\ corrected_is_valid(schedule)
                  /\ do_vested_transfer(Storage, source, target, correct(schedule))
                         = do_vested_transfer(Storage, source, target, schedule)

\* The corrected schedule of an accepted transfer is stored, `validate`
\* accepts it and `correct` does not change it.
C25_Witness ==
    /\ last.op \in TransferOps
    /\ last.result = "Ok"
    /\ now = 0
    /\ \E k \in positions(last.who) :
           /\ stored(last.who)[k + 1].per_block = stored(last.who)[k + 1].locked
           /\ stored(last.who)[k + 1]
                  = correct(VestingInfo(MinVestedTransfer + 1, MinVestedTransfer + 2, 0))
           /\ corrected_is_valid(stored(last.who)[k + 1])

\* ------------------------------------------------------------ C26
\* locked / per_block rounded up, with a per_block of 0 taken as 1.
ceil_duration(s) ==
    LET per_block == Max(s.per_block, 1)
    IN  (s.locked + per_block - 1) \div per_block

\* C26: ending_block(s) = starting_block + ceil(locked / max(per_block, 1)),
\* or ArithmeticOverflow when that is no block number; for every schedule
\* with per_block >= 1 it is the first block at which locked_at is zero
\* (something is still locked one block earlier when locked > 0), also when
\* locked is not a multiple of per_block; a schedule with
\* per_block >= locked > 0 ends at starting_block + 1.  Stated of every stored
\* schedule, and of merge_vesting_info, which treats a schedule as ended
\* exactly from that block on.
C26_EndingBlockIsFirstZero ==
    \A who \in Accounts : \A k \in positions(who) :
        LET s == stored(who)[k + 1]
            e == ending_block(s)
        IN  /\ e.ok <=> s.starting_block + ceil_duration(s) <= BlockNumberMax
            /\ ~e.ok => e.err = "ArithmeticOverflow"
            /\ e.ok => e.val = s.starting_block + ceil_duration(s)
            /\ (e.ok /\ s.per_block >= 1) =>
                   /\ locked_at(s, e.val) = 0
                   /\ s.locked > 0 => locked_at(s, e.val - 1) > 0
                   /\ ended(s, now) <=> locked_at(s, now) = 0
                   /\ \A j \in positions(who) :
                          (locked_at(s, now) = 0 /\ unended(stored(who)[j + 1], now))
                              => merge_vesting_info(now, s, stored(who)[j + 1])
                                     = [result |-> "Ok",
                                        schedule |-> Some(stored(who)[j + 1])]
            /\ (e.ok /\ s.per_block >= s.locked /\ s.locked > 0) =>
                   e.val = s.starting_block + 1

\* A stored schedule whose locked amount is not a multiple of its per_block
\* stands at its ending block next to a schedule that has not ended: the
\* remainder was locked one block earlier, nothing is locked now.
C26_Witness ==
    \E k \in positions(1), j \in positions(1) :
        LET s == stored(1)[k + 1]
        IN  /\ s.per_block >= 2
            /\ s.locked % s.per_block # 0
            /\ s.locked > s.per_block
            /\ ending_block(s).ok
            /\ ending_block(s).val = now
            /\ locked_at(s, now - 1) > 0
            /\ locked_at(s, now - 1) < s.per_block
            /\ locked_at(s, now) = 0
            /\ unended(stored(1)[j + 1], now)

\* ------------------------------------------------------------ C27
\* The sum of locked_at(s, now) over all stored schedules of `who`.
sum_locked_at(who) ==
    LET sum[k \in 0..Len(stored(who))] ==
            IF k = 0 THEN 0 ELSE sum[k - 1] + locked_at(stored(who)[k], now)
    IN  sum[Len(stored(who))]

\* What C27 says vesting_balance returns for `who` in the current state.
balance_as_claimed(who) ==
    IF Vesting[who] = None
    THEN None
    ELSE Some(Min(free[who], sum_locked_at(who)))

\* C27: vesting_balance(account) returns None when the account has no stored
\* schedule set; otherwise min(free balance, sum of locked_at(s, now) over all
\* stored schedules, ended ones included); and it never changes the stored
\* schedules or the lock.
C27_VestingBalance ==
    /\ [](\A who \in Accounts :
              vesting_balance(Storage, who) = balance_as_claimed(who))
    /\ [][\A who \in Accounts :
              VestingBalance(who)
                  => /\ Vesting' = Vesting
                     /\ locks' = locks
                     /\ last'.result = "None" <=> balance_as_claimed(who) = None]_vars

\* vesting_balance was read for an account that holds a schedule locking
\* nothing any more next to schedules that still lock, less than its free
\* balance.
C27_Witness ==
    /\ last.op = "vesting_balance"
    /\ last.result = "Some"
    /\ \E k \in positions(last.who) : locked_at(stored(last.who)[k + 1], now) = 0
    /\ sum_locked_at(last.who) > 0
    /\ balance_as_claimed(last.who) = Some(sum_locked_at(last.who))
    /\ sum_locked_at(last.who) < free[last.who]

\* ------------------------------------------------------------ C28
\* C28: add_vesting_schedule with locked = 0 returns success and changes
\* nothing: the stored schedules (ended ones included), the lock and the
\* free balances stay as they are and no event is deposited, whatever the
\* per_block and starting block and however many schedules are stored.
C28_AddOfZeroIsNoOp ==
    \A who \in Accounts, per_block \in 0..MergeLockedMax, starting_block \in 0..MaxBlock :
        add_vesting_schedule(Storage, who, 0, per_block, starting_block)
            = Outcome(Storage, "Ok", <<>>)

\* An add_vesting_schedule returned Ok without an event for an account that
\* still stores a schedule locking nothing, under a lock above what its
\* schedules lock now: the add of a zero amount left both in place.
C28_Witness ==
    /\ last.op = "add_vesting_schedule"
    /\ last.result = "Ok"
    /\ events = <<>>
    /\ \E k \in positions(last.who) : locked_at(stored(last.who)[k + 1], now) = 0
    /\ locks[last.who] # None
    /\ locks[last.who][1] > sum_locked_at(last.who)

\* ------------------------------------------------------------ C29
\* The step is a successful vest, vest_other, add_vesting_schedule,
\* remove_vesting_schedule, vested transfer or merge.
explicit_write == last'.op \in WritingOps /\ last'.result = "Ok"

\* C29: advancing the block number without invoking any operation leaves
\* every account's stored schedule set and lock amount unchanged; a stored
\* set or a lock changes only in a successful vest, vest_other,
\* add_vesting_schedule, remove_vesting_schedule, vested transfer or merge,
\* so between two writes the lock stays at the amount of the earlier write.
C29_LockChangesOnlyByExplicitWrite ==
    [][/\ AdvanceBlock =>
              /\ locks' = locks
              /\ Vesting' = Vesting
              /\ free' = free
       /\ (locks' # locks \/ Vesting' # Vesting) => explicit_write
       /\ last'.op = "set_block_number" =>
              /\ now' = now + 1
              /\ locks' = locks
              /\ Vesting' = Vesting]_vars

\* After two blocks without a call the only schedule of an account locks
\* less than the lock, which still stands at the schedule's whole amount.
C29_Witness ==
    /\ last.op = "set_block_number"
    /\ now >= 2
    /\ \E who \in Accounts :
           /\ Len(stored(who)) = 1
           /\ stored(who)[1].starting_block = 0
           /\ locks[who] = Some(stored(who)[1].locked)
           /\ locked_at(stored(who)[1], now) < stored(who)[1].locked
           /\ locked_at(stored(who)[1], now - 1) < stored(who)[1].locked

\* ------------------------------------------------------------ C30
\* The actions handed to report_schedule_updates.
Actions ==
    {Passive} \cup {Remove(i) : i \in Indices}
        \cup {Merge(i, j) : i \in Indices, j \in Indices}

\* The indices an action targets.
targeted(action) ==
    IF action.kind = "Passive" THEN {}
    ELSE IF action.kind = "Remove" THEN {action.index1}
    ELSE {action.index1, action.index2}

\* The positions (from 1) of the schedules that lock something at the
\* current block and whose index the action does not target, in order.
returned_positions(schedules, action) ==
    SelectSeq([k \in 1..Len(schedules) |-> k],
              LAMBDA k : /\ locked_at(schedules[k], now) # 0
                         /\ (k - 1) \notin targeted(action))

\* C30: report_schedule_updates(schedules, action) at block `now` returns
\* exactly the input schedules whose locked_at(now) is nonzero and whose
\* original index the action does not target, in their original order and
\* with their fields unchanged, together with the sum of locked_at(now) over
\* the returned schedules only.  Stated of every stored schedule set under
\* every action.
C30_ReportScheduleUpdates ==
    \A who \in Accounts, action \in Actions :
        LET schedules == stored(who)
            kept == returned_positions(schedules, action)
            sum[k \in 0..Len(kept)] ==
                IF k = 0 THEN 0
                ELSE sum[k - 1] + locked_at(schedules[kept[k]], now)
            r == report_schedule_updates(schedules, action)
        IN  /\ r.schedules = [k \in 1..Len(kept) |-> schedules[kept[k]]]
            /\ r.total_locked_now = sum[Len(kept)]

\* A removal at block 2 from the account with three genesis schedules: the
\* first was targeted, the second locks nothing any more, the third is
\* returned alone with the amount it locks.
C30_Witness ==
    /\ last.op = "remove_vesting_schedule"
    /\ last.result = "Ok"
    /\ now = 2
    /\ stored(last.who) = <<VestingInfo(1, 1, 2)>>
    /\ locks[last.who] = Some(1)
    /\ events = << <<"VestingUpdated", last.who, 1>> >>

\* ------------------------------------------------------------ C31
\* C31: in every state reached from genesis through the dispatchable calls
\* (vest, vest_other, vested_transfer, force_vested_transfer,
\* merge_schedules), every stored schedule has locked > 0 and
\* 1 <= per_block <= locked.
C31_StoredSchedulesAreValid ==
    \A who \in Accounts : \A k \in positions(who) :
        /\ stored(who)[k + 1].locked > 0
        /\ per_block_in_range(stored(who)[k + 1])

\* A merge computed a new schedule, starting at the current block, for an
\* account that had also received a transferred schedule; it is stored last.
C31_Witness ==
    /\ last.op = "merge_schedules"
    /\ last.result = "Ok"
    /\ created = 1
    /\ now >= 1
    /\ Len(events) = 2
    /\ events[1][1] = "MergedScheduleAdded"
    /\ events[1][4] = now
    /\ stored(last.who) # <<>>
    /\ stored(last.who)[Len(stored(last.who))]
           = VestingInfo(events[1][2], events[1][3], events[1][4])

\* ------------------------------------------------------------ C32
\* The duration merge_vesting_info computes for two schedules at block n:
\* from the latest of n and the starting blocks to the later ending block.
merged_duration(a, b, n) ==
    saturating_sub(
        Max(ending_block(a).val, ending_block(b).val),
        BlockNumberToBalance(Max(Max(n, a.starting_block), b.starting_block)))

\* C32: whenever merge_vesting_info computes a new schedule (neither input
\* has ended at `now`), the result is valid: locked > 0 and
\* 1 <= per_block <= locked; the computed duration is at least 1; this holds
\* also when an input has per_block = 0.  Stated of every two distinct
\* positions holding unended schedules.
C32_MergedScheduleIsValid ==
    \A who \in Accounts, i \in Indices, j \in Indices :
        (/\ i # j /\ i \in positions(who) /\ j \in positions(who)
         /\ unended(stored(who)[i + 1], now)
         /\ unended(stored(who)[j + 1], now))
        => LET a == stored(who)[i + 1]
               b == stored(who)[j + 1]
               m == merge_vesting_info(now, a, b)
           IN  /\ m.result = "Ok"
               /\ m.schedule # None
               /\ m.schedule[1].locked > 0
               /\ per_block_in_range(m.schedule[1])
               /\ validate(m.schedule[1]) = "Ok"
               /\ merged_duration(a, b, now) >= 1

\* A merge stored a computed schedule that unlocks 1 per block and locks
\* more than that.
C32_Witness ==
    /\ last.op = "merge_schedules"
    /\ last.result = "Ok"
    /\ Len(events) = 2
    /\ events[1][1] = "MergedScheduleAdded"
    /\ events[1][2] >= 2
    /\ events[1][3] = 1
    /\ events[1][4] > now
    /\ stored(last.who) = <<VestingInfo(events[1][2], 1, events[1][4])>>

\* ------------------------------------------------------------ C33
\* The debug_assert made before every write, on the sequence and the amount
\* that an outcome wrote for `who`: write_vesting stores the sequence unless
\* it is empty, write_lock sets the lock unless the amount is zero.
written_consistently(o, who) ==
    LET schedules  == IF o.st.Vesting[who] = None THEN <<>> ELSE o.st.Vesting[who][1]
        locked_now == lock_amount(o.st.locks, who)
    IN  /\ o.result = "Ok"
        /\ o.st.Vesting[who] # Some(<<>>)
        /\ o.st.locks[who] # Some(0)
        /\ Len(schedules) <= MaxVestingSchedules
        /\ \/ locked_now > 0 /\ Len(schedules) > 0
           \/ locked_now = 0 /\ Len(schedules) = 0

\* The schedules handed to add_vesting_schedule when stating C33.
AddInputs == {s \in MergeInputs : s.locked <= 2 /\ s.per_block <= 2}

\* C33: the consistency assertion made before every write holds in vest,
\* add_vesting_schedule, remove_vesting_schedule and merge_schedules for
\* every reachable state and input: the sequence about to be written is
\* empty if and only if the amount about to be written is zero, and its
\* length is at most MaxVestingSchedules (so write_vesting never fails).
C33_WriteAssertionHolds ==
    \A who \in Accounts :
        /\ Vesting[who] # None =>
               /\ written_consistently(do_vest(Storage, who), who)
               /\ \A i \in Indices :
                      written_consistently(remove_vesting_schedule(Storage, who, i), who)
               /\ \A i \in positions(who), j \in positions(who) :
                      LET o == merge_schedules(Storage, who, i, j)
                      IN  (i # j /\ o.result # "ArithmeticOverflow")
                              => written_consistently(o, who)
        /\ \A s \in AddInputs :
               Len(stored(who)) < MaxVestingSchedules =>
                   written_consistently(
                       add_vesting_schedule(Storage, who, s.locked, s.per_block,
                                            s.starting_block), who)

\* A merge wrote the merged schedule alone, under a lock of its amount.
C33_Witness ==
    /\ last.op = "merge_schedules"
    /\ last.result = "Ok"
    /\ Len(events) = 2
    /\ events[1][1] = "MergedScheduleAdded"
    /\ Len(stored(last.who)) = 1
    /\ locks[last.who] = Some(locked_at(stored(last.who)[1], now))
    /\ events[2] = <<"VestingUpdated", last.who, events[1][2]>>

\* ------------------------------------------------------------ C34
\* The stored schedules of `who` that lock something at the current block and
\* are not targeted by `action`, in their stored order.
remaining(who, action) ==
    LET kept == returned_positions(stored(who), action)
    IN  [k \in 1..Len(kept) |-> stored(who)[kept[k]]]

\* The sum of locked_at(s, now) over a sequence of schedules.
sum_locked_now(schedules) ==
    LET sum[k \in 0..Len(schedules)] ==
            IF k = 0 THEN 0 ELSE sum[k - 1] + locked_at(schedules[k], now)
    IN  sum[Len(schedules)]

\* The storage holding `schedules` for `who` under the lock of what they lock
\* now, or neither entry nor lock when there are none.
storage_with(who, schedules) ==
    [free    |-> free,
     Vesting |-> [Vesting EXCEPT ![who] =
                      IF schedules = <<>> THEN None ELSE Some(schedules)],
     locks   |-> [locks EXCEPT ![who] =
                      IF schedules = <<>> THEN None
                      ELSE Some(sum_locked_now(schedules))]]

\* C34: remove_vesting_schedule(account, i) fails with NotVesting and changes
\* nothing when the account has no stored set; for a valid index i it stores
\* the previous schedules without the one at position i and without every
\* schedule fully unlocked at `now`, in unchanged order, sets the lock to the
\* sum of locked_at(now) of the remaining schedules, and deletes entry and
\* lock when none remain.
C34_RemoveVestingSchedule ==
    \A who \in Accounts, i \in Indices :
        LET o == remove_vesting_schedule(Storage, who, i)
        IN  /\ Vesting[who] = None => o = Outcome(Storage, "NotVesting", <<>>)
            /\ i \in positions(who) =>
                   /\ o.result = "Ok"
                   /\ o.st = storage_with(who, remaining(who, Remove(i)))

\* At block 0, where every stored schedule still locks its whole amount, a
\* removal deleted the entry and the lock of an account.
C34_Witness ==
    /\ last.op = "remove_vesting_schedule"
    /\ last.result = "Ok"
    /\ now = 0
    /\ Vesting[last.who] = None
    /\ locks[last.who] = None
    /\ events = << <<"VestingCompleted", last.who>> >>

\* ------------------------------------------------------------ C35
\* C35: remove_vesting_schedule with an index that is not a position of the
\* stored sequence of an account does not return an error: it succeeds and
\* has exactly the effect of vest on the same state at the same block, on
\* stored schedules, lock and events.
C35_RemoveOutOfRangeIsVest ==
    \A who \in Accounts, i \in Indices :
        (Vesting[who] # None /\ i \notin positions(who))
            => /\ remove_vesting_schedule(Storage, who, i).result = "Ok"
               /\ remove_vesting_schedule(Storage, who, i) = do_vest(Storage, who)

\* A removal succeeded and left MaxVestingSchedules schedules stored: its
\* index was no position, and it wrote the lock as a vest does.
C35_Witness ==
    /\ last.op = "remove_vesting_schedule"
    /\ last.result = "Ok"
    /\ Len(stored(last.who)) = MaxVestingSchedules
    /\ events = << <<"VestingUpdated", last.who, sum_locked_at(last.who)>> >>
    /\ locks[last.who] = Some(sum_locked_at(last.who))

\* ------------------------------------------------------------ C36
\* C36: if computing the ending block of either selected schedule fails
\* (it is beyond the last block number), merge_schedules returns that error,
\* ArithmeticOverflow, leaves the stored schedules, the lock and the free
\* balances unchanged and deposits no event.
C36_MergeOverflowChangesNothing ==
    \A who \in Accounts, i \in Indices, j \in Indices :
        (/\ i # j /\ i \in positions(who) /\ j \in positions(who)
         /\ \/ ~ending_block(stored(who)[i + 1]).ok
            \/ ~ending_block(stored(who)[j + 1]).ok)
        => merge_schedules(Storage, who, i, j)
               = Outcome(Storage, "ArithmeticOverflow", <<>>)

\* A merge was refused with ArithmeticOverflow: the account still stores at
\* least two schedules, one of them without an ending block, and its lock.
C36_Witness ==
    /\ last.op = "merge_schedules"
    /\ last.result = "ArithmeticOverflow"
    /\ events = <<>>
    /\ Len(stored(last.who)) >= 2
    /\ \E k \in positions(last.who) : ~ending_block(stored(last.who)[k + 1]).ok
    /\ locks[last.who] # None

\* ------------------------------------------------------------ C37
\* C37: a vested transfer whose schedule is already fully unlocked at the
\* current block (locked_at(schedule, now) = 0) is not refused for that: it
\* fails only for a full target or insufficient funds, and when it succeeds
\* it moves schedule.locked from source to target and records no schedule
\* for the target, whose stored set afterwards holds only its previously
\* stored schedules that are still locked; if there are none the target has
\* no entry and no lock.
C37_TransferOfUnlockedSchedule ==
    \A source \in Accounts, target \in Accounts, schedule \in Schedules :
        (/\ schedule.locked > MinVestedTransfer
         /\ validate(schedule) = "Ok"
         /\ locked_at(schedule, now) = 0)
        => LET o == do_vested_transfer(Storage, source, target, schedule)
           IN  /\ o.result \in {"Ok", "AtMaxVestingSchedules", "InsufficientBalance"}
               /\ o.result = "AtMaxVestingSchedules"
                      <=> Len(stored(target)) >= MaxVestingSchedules
               /\ o.result = "Ok" =>
                      /\ o.st.free = transfer(free, source, target, schedule.locked)
                      /\ o.st.Vesting
                             = storage_with(target, remaining(target, Passive)).Vesting
                      /\ o.st.locks
                             = storage_with(target, remaining(target, Passive)).locks

\* After block 0 a transfer succeeded and left its target, which received
\* the funds, without entry and without lock.
C37_Witness ==
    /\ last.op \in TransferOps
    /\ last.result = "Ok"
    /\ now >= 1
    /\ Vesting[last.who] = None
    /\ locks[last.who] = None
    /\ free[last.who] = GenesisBalance + MinVestedTransfer + 1
    /\ events = << <<"VestingCompleted", last.who>> >>

\* ------------------------------------------------------------ C38
\* The call's outcome does not raise the lock of `who`.
not_raising(o, who) ==
    o.result = "Ok" => lock_amount(o.st.locks, who) <= lock_amount(locks, who)

\* C38 as stated: for an account that receives no new schedule, the lock
\* amounts written by successive vest, vest_other, remove_vesting_schedule and
\* merge_schedules calls are non-increasing as the block number advances:
\* none of these calls ever raises the lock above the amount written before.
\* Stated of the outcome of each call in every reachable state.
C38_WritesNeverRaiseLock ==
    \A who \in Accounts :
        /\ not_raising(do_vest(Storage, who), who)
        /\ \A i \in Indices :
               not_raising(remove_vesting_schedule(Storage, who, i), who)
        /\ \A i \in Indices, j \in Indices :
               not_raising(merge_schedules(Storage, who, i, j), who)

\* ------------------------------------------------------------ C39
\* What C39 says locked_at returns for schedule s at block t, with the
\* product taken in the unbounded integers.
locked_at_as_claimed(s, t) ==
    IF t <= s.starting_block
    THEN s.locked
    ELSE Max(0, s.locked - s.per_block * (t - s.starting_block))

\* C39: locked_at always returns an amount, never more than `locked`: for
\* t <= starting_block it returns `locked`, otherwise locked minus
\* per_block * (t - starting_block) floored at zero; when that product is
\* above the largest amount it saturates, and the result is 0 rather than a
\* wrapped value.  Stated of every stored schedule at every block, and of the
\* amount report_schedule_updates counts for it at the current block.
C39_LockedAtSaturates ==
    \A who \in Accounts : \A k \in positions(who) : \A t \in Blocks :
        LET s == stored(who)[k + 1]
        IN  /\ locked_at(s, t) \in Balance
            /\ locked_at(s, t) <= s.locked
            /\ locked_at(s, t) = locked_at_as_claimed(s, t)
            /\ (t > s.starting_block
                    /\ s.per_block * (t - s.starting_block) > BalanceMax)
                   => locked_at(s, t) = 0
            /\ report_schedule_updates(<<s>>, Passive).total_locked_now
                   = locked_at_as_claimed(s, now)

\* A stored schedule for which the product is above the largest amount at
\* some block: it locks nothing there, and less than its whole amount at the
\* current block.
C39_Witness ==
    \E k \in positions(1), t \in Blocks :
        LET s == stored(1)[k + 1]
        IN  /\ t > s.starting_block
            /\ s.per_block * (t - s.starting_block) > BalanceMax
            /\ locked_at(s, t) = 0
            /\ now > s.starting_block
            /\ locked_at(s, now) > 0
            /\ locked_at(s, now) < s.locked

====
